---- MODULE Spec2Model ----
(***************************************************************************)
(* Reconciliation engine of rececao/services.py: process_inbound,          *)
(* create_po_from_nota_encomenda and map_supplier_codes over the tables    *)
(* of rececao/models.py.                                                   *)
(*                                                                         *)
(* Tables are sequences of rows in primary-key order, so that a            *)
(* filter(...).first() is "the first matching row" and a duplicate row is  *)
(* something the model can hold.  Quantities are whole units.  A Python    *)
(* None is the string None, except in integer fields where it is 0         *)
(* (first_error_line, last_successful_line).                               *)
(*                                                                         *)
(* ReceiptLine rows carry po_number_extracted as services.py writes and    *)
(* reads it (lines 3135, 3165); description and unit are copied from the   *)
(* payload untouched and are left out of the rows.                         *)
(***************************************************************************)
EXTENDS Integers, Sequences, FiniteSets, TLC

VARIABLES purchaseOrders, poLines, codeMappings, inbound, receiptLines,
          exceptionTasks, matchResults, last, passes, sess, lock, cascade, norm,
          parse, gemini

vars == <<purchaseOrders, poLines, codeMappings, inbound, receiptLines,
          exceptionTasks, matchResults, last, passes, sess, lock, cascade, norm, parse, gemini>>

-----------------------------------------------------------------------------
(* Bounds of the model *)

MaxQty == 2

MaxPasses == 3

MaxNumber == 1200

MaxCalls == 3

(* Constants of the program *)

MinTextLen == 100

LowQualityLen == 50

MinCodeLen == 5

MinDescLen == 10

AutoConfidence == 5

ManualConfidence == 10

-----------------------------------------------------------------------------
(* Values *)

None == "None"

Docs == {"GR-1", "FT-1"}

DocType(d) == IF d = "GR-1" THEN "GR" ELSE "FT"

Supplier(d) == "AUTO"

Min(S) == CHOOSE x \in S : \A y \in S : x <= y

\* Python's `sub in s` on strings
Contains(sub, s) ==
  \E i \in 1..(Len(s) + 1) : i + Len(sub) - 1 <= Len(s) /\ SubSeq(s, i, i + Len(sub) - 1) = sub

Prod(artigo, descricao, quantidade, numero_encomenda) ==
  [artigo |-> artigo, descricao |-> descricao, quantidade |-> quantidade,
   numero_encomenda |-> numero_encomenda]

LegacyLine(supplier_code, qty) == [supplier_code |-> supplier_code, qty |-> qty]

\* the dict real_ocr_extract returns when no text was extracted: keys error,
\* document_number, po_number, lines; no produtos, no texto_completo
ErrorPayload ==
  [kind |-> "error", error |-> TRUE, texto_len |-> 0, tipo_documento |-> "",
   baixa_qualidade_texto |-> FALSE, produtos |-> <<>>, lines |-> <<>>,
   document_number |-> "", po_number |-> ""]

\* the dict parse_portuguese_document returns for a text of texto_len
\* characters: both produtos and lines are keys, po_number falls back to
\* document_number, baixa_qualidade_texto is real_ocr_extract's short-text flag
ParsedPayload(texto_len, tipo, produtos, lines, document_number, po_number) ==
  [kind |-> "parsed", error |-> FALSE, texto_len |-> texto_len, tipo_documento |-> tipo,
   baixa_qualidade_texto |-> (texto_len < LowQualityLen),
   produtos |-> produtos, lines |-> lines,
   document_number |-> document_number,
   po_number |-> IF po_number = "" THEN document_number ELSE po_number]

\* lines 3017-3039: the LLM answer in the shape of a payload; the dict has no
\* document_number, lines, baixa_qualidade_texto or qr_codes
LLMPayload(texto_len, answer) ==
  [kind |-> "llm", error |-> FALSE, texto_len |-> texto_len,
   tipo_documento |-> "UNKNOWN_LLM", baixa_qualidade_texto |-> FALSE,
   produtos |-> [i \in 1..Len(answer.produtos) |->
                   Prod(answer.produtos[i].codigo, answer.produtos[i].descricao,
                        answer.produtos[i].quantidade, answer.produtos[i].numero_encomenda)],
   lines |-> <<>>, document_number |-> "", po_number |-> answer.numero_encomenda]

\* the keys of the three dicts process_inbound can store: the result of
\* parse_portuguese_document (2517-2533), the error_result of
\* real_ocr_extract (649-662) and the converted LLM answer (3017-3039)
PayloadKeys(kind) ==
  CASE kind = "parsed" ->
         {"numero_requisicao", "document_number", "po_number", "supplier_name",
          "delivery_date", "qr_codes", "produtos", "lines", "totals", "tipo_documento",
          "texto_completo", "baixa_qualidade_texto"}
    [] kind = "error" ->
         {"error", "numero_requisicao", "document_number", "po_number", "supplier_name",
          "delivery_date", "qr_codes", "lines", "totals"}
    [] kind = "llm" ->
         {"fornecedor", "nif", "numero_documento", "data_documento", "po_number", "iban",
          "produtos", "total", "texto_completo", "tipo_documento", "extraction_method"}
    [] OTHER -> {}

HasKey(payload, key) == key \in PayloadKeys(payload.kind)

\* payload.get("produtos", payload.get("lines", []))
DocItems(payload) ==
  IF HasKey(payload, "produtos") THEN payload.produtos
  ELSE IF HasKey(payload, "lines") THEN payload.lines
  ELSE <<>>

GRPayloads ==
  { ParsedPayload(150, "GUIA_GENERICA", <<Prod("A1234", "", 1, "")>>, <<>>, "", "P1"),
    ParsedPayload(150, "GUIA_GENERICA", <<Prod("A1234", "", MaxQty, "")>>, <<>>, "", "P1"),
    ParsedPayload(150, "GUIA_GENERICA",
                  <<Prod("A1234", "", 1, ""), Prod("A1234", "", 1, "")>>, <<>>, "", "P1"),
    ParsedPayload(150, "GUIA_GENERICA", <<Prod("A1234", "", 1, "P2")>>, <<>>, "P1", ""),
    ParsedPayload(150, "GUIA_GENERICA", <<Prod("A1234", "", 1, "PX")>>, <<>>, "", ""),
    ParsedPayload(150, "GUIA_GENERICA", <<Prod("B7", "", 1, "")>>, <<>>, "", "P1"),
    ParsedPayload(150, "GUIA_GENERICA",
                  <<Prod("OCR", "", 1, ""), Prod("", "COLCHAO VISCO", 1, ""),
                    Prod("A1234", "", 1, "")>>, <<>>, "", "P1"),
    ParsedPayload(150, "DOCUMENTO_GENERICO", <<>>, <<LegacyLine("A1234", 1)>>, "", "P1"),
    ParsedPayload(150, "GUIA_GENERICA", <<>>, <<>>, "", "P1"),
    ParsedPayload(60, "DOCUMENTO_GENERICO", <<>>, <<>>, "", ""),
    LLMPayload(60, [produtos |-> <<[codigo |-> "A1234", descricao |-> "",
                                     quantidade |-> 0 - 1, numero_encomenda |-> ""],
                                    [codigo |-> "A1234", descricao |-> "",
                                     quantidade |-> 1, numero_encomenda |-> "P2"]>>,
                    numero_encomenda |-> "P1"]),
    ErrorPayload }

FTPayloads ==
  { ParsedPayload(150, "FATURA_GENERICA", <<Prod("A1234", "", 1, "")>>, <<>>, "P1", ""),
    ParsedPayload(150, "FATURA_GENERICA",
                  <<Prod("A1234", "", 1, "P3"), Prod("B7", "", MaxQty, "")>>, <<>>, "", "P3"),
    ParsedPayload(150, "DOCUMENTO_GENERICO",
                  <<Prod("", "COLCHAO VISCO", 1, ""), Prod("A1234", "", 0, "")>>, <<>>, "", ""),
    ParsedPayload(150, "DOCUMENTO_GENERICO",
                  <<Prod("A1234", "", 1, "P2"), Prod("", "COLCHAO VISCO", 1, ""),
                    Prod("A1234", "", 0, "P3")>>, <<>>, "P1", "") }

Payloads(d) == IF DocType(d) = "GR" THEN GRPayloads ELSE FTPayloads

-----------------------------------------------------------------------------
(* Rows *)

PORow(number, supplier) == [number |-> number, supplier |-> supplier]

POLineRow(po, internal_sku, qty_ordered, qty_received, tolerance) ==
  [po |-> po, internal_sku |-> internal_sku, qty_ordered |-> qty_ordered,
   qty_received |-> qty_received, tolerance |-> tolerance]

CodeMappingRow(supplier, supplier_code, internal_sku, confidence) ==
  [supplier |-> supplier, supplier_code |-> supplier_code,
   internal_sku |-> internal_sku, confidence |-> confidence]

ExceptionRow(line_ref, issue) == [line_ref |-> line_ref, issue |-> issue]

\* a document that has no MatchResult row yet
NoResult == [status |-> "absent"]

\* InboundDocument.parsed_payload before the first pass (default=dict)
EmptyPayload == [kind |-> "empty"]

\* index of the first PurchaseOrder with this number, 0 when there is none
POIdx(pos, number) ==
  LET S == {i \in 1..Len(pos) : pos[i].number = number}
  IN IF S = {} THEN 0 ELSE Min(S)

\* index of the first POLine of (po, internal_sku), 0 when there is none
POLineIdx(lines, po, internal_sku) ==
  LET S == {i \in 1..Len(lines) : lines[i].po = po /\ lines[i].internal_sku = internal_sku}
  IN IF S = {} THEN 0 ELSE Min(S)

\* index of the first CodeMapping of (supplier, supplier_code), 0 when there is none
MappingIdx(maps, supplier, supplier_code) ==
  LET S == {i \in 1..Len(maps) :
              maps[i].supplier = supplier /\ maps[i].supplier_code = supplier_code}
  IN IF S = {} THEN 0 ELSE Min(S)

IsOcr(e) == e.line_ref = "OCR"

NotOcr(e) == e.line_ref # "OCR"

OcrCount(excs) == Len(SelectSeq(excs, IsOcr))

\* the tables as one value
DB ==
  [purchaseOrders |-> purchaseOrders, poLines |-> poLines, codeMappings |-> codeMappings,
   inbound |-> inbound, receiptLines |-> receiptLines, exceptionTasks |-> exceptionTasks,
   matchResults |-> matchResults]

-----------------------------------------------------------------------------
(* map_supplier_codes *)

MappedLine(s, supplier, supplier_code, article_code, lookup_code, qty, po_number_extracted) ==
  LET m == IF lookup_code = None THEN 0 ELSE MappingIdx(s.codeMappings, supplier, lookup_code)
  IN [supplier_code |-> supplier_code,
      article_code |-> article_code,
      qty |-> qty,
      internal_sku |-> IF m = 0 THEN None ELSE s.codeMappings[m].internal_sku,
      po_number_extracted |-> po_number_extracted]

map_supplier_codes(s, supplier, payload) ==
  IF HasKey(payload, "produtos") /\ payload.produtos # <<>>
  THEN [i \in 1..Len(payload.produtos) |->
          LET p == payload.produtos[i]
          IN MappedLine(s, supplier, "",
                        IF p.artigo = "" THEN "UNKNOWN" ELSE p.artigo,
                        IF p.artigo = "" THEN None ELSE p.artigo,
                        p.quantidade, p.numero_encomenda)]
  ELSE IF HasKey(payload, "lines")
  THEN [i \in 1..Len(payload.lines) |->
          LET l == payload.lines[i]
          IN MappedLine(s, supplier, l.supplier_code, l.supplier_code, l.supplier_code,
                        l.qty, "")]
  ELSE <<>>

ReceiptLineRow(ml) ==
  [supplier_code |-> ml.supplier_code,
   article_code |-> ml.article_code,
   maybe_internal_sku |-> IF ml.internal_sku = None THEN "" ELSE ml.internal_sku,
   qty_received |-> ml.qty,
   po_number_extracted |-> ml.po_number_extracted]

-----------------------------------------------------------------------------
(* create_po_from_nota_encomenda *)

\* the product entries the materializer reads: produtos, or lines when
\* produtos is empty, with the keys it falls back through
POItems(payload) ==
  IF payload.produtos # <<>>
  THEN [i \in 1..Len(payload.produtos) |->
          [code |-> payload.produtos[i].artigo,
           quantidade |-> payload.produtos[i].quantidade,
           numero_encomenda |-> payload.produtos[i].numero_encomenda]]
  ELSE [i \in 1..Len(payload.lines) |->
          [code |-> payload.lines[i].supplier_code,
           quantidade |-> payload.lines[i].qty,
           numero_encomenda |-> ""]]

\* mutant of EffectivePONumber: the product's own token is not read
EffectivePONumberOfDocument(item, payload, number) ==
  IF payload.document_number # "" THEN payload.document_number
  ELSE IF payload.po_number # "" THEN payload.po_number
  ELSE "PO-" \o number

\* lines 2920-2924
EffectivePONumber(item, payload, number) ==
  IF item.numero_encomenda # "" THEN item.numero_encomenda
  ELSE IF payload.document_number # "" THEN payload.document_number
  ELSE IF payload.po_number # "" THEN payload.po_number
  ELSE "PO-" \o number

RECURSIVE SortedSeq(_)
SortedSeq(S) == IF S = {} THEN <<>> ELSE <<Min(S)>> \o SortedSeq(S \ {Min(S)})

\* the keys of produtos_por_po in insertion order
GroupNumbers(items, payload, number) ==
  LET num(i) == EffectivePONumber(items[i], payload, number)
      firsts == {i \in 1..Len(items) : \A j \in 1..(i - 1) : num(j) # num(i)}
      order == SortedSeq(firsts)
  IN [k \in 1..Len(order) |-> num(order[k])]

GroupItems(items, payload, number, po_number) ==
  LET InGroup(item) == EffectivePONumber(item, payload, number) = po_number
  IN SelectSeq(items, InGroup)

\* mutant of MaterializeLine: the quantity of a later product overwrites
MaterializeLineOverwrite(lines, po, item) ==
  IF item.code = "" \/ item.quantidade <= 0 THEN lines
  ELSE LET idx == POLineIdx(lines, po, item.code)
       IN IF idx = 0
          THEN Append(lines, POLineRow(po, item.code, item.quantidade, 0, 0))
          ELSE [lines EXCEPT ![idx].qty_ordered = item.quantidade]

\* mutant of MaterializeLine: an existing POLine is left as it is
MaterializeLineOnce(lines, po, item) ==
  IF item.code = "" \/ item.quantidade <= 0 THEN lines
  ELSE LET idx == POLineIdx(lines, po, item.code)
       IN IF idx = 0
          THEN Append(lines, POLineRow(po, item.code, item.quantidade, 0, 0))
          ELSE lines

\* one product of a group: skipped, a new POLine, or added to the existing one
MaterializeLine(lines, po, item) ==
  IF item.code = "" \/ item.quantidade <= 0 THEN lines
  ELSE LET idx == POLineIdx(lines, po, item.code)
       IN IF idx = 0
          THEN Append(lines, POLineRow(po, item.code, item.quantidade, 0, 0))
          ELSE [lines EXCEPT ![idx].qty_ordered = @ + item.quantidade]

RECURSIVE MaterializeGroup(_, _, _, _)
MaterializeGroup(lines, po, items, i) ==
  IF i > Len(items) THEN lines
  ELSE MaterializeGroup(MaterializeLine(lines, po, items[i]), po, items, i + 1)

FindOrCreatePO(pos, number, supplier) ==
  IF POIdx(pos, number) # 0 THEN pos ELSE Append(pos, PORow(number, supplier))

RECURSIVE MaterializeGroups(_, _, _, _, _)
MaterializeGroups(s, d, payload, groups, g) ==
  IF g > Len(groups) THEN s
  ELSE LET items == GroupItems(POItems(payload), payload, d, groups[g])
           s1 == [s EXCEPT !.purchaseOrders = FindOrCreatePO(@, groups[g], Supplier(d)),
                           !.poLines = MaterializeGroup(@, groups[g], items, 1)]
       IN MaterializeGroups(s1, d, payload, groups, g + 1)

create_po_from_nota_encomenda(s, d, payload) ==
  LET groups == GroupNumbers(POItems(payload), payload, d)
      s1 == MaterializeGroups(s, d, payload, groups, 1)
  IN IF groups = <<>> THEN s1
     ELSE [s1 EXCEPT !.inbound[d].po = groups[1]]

-----------------------------------------------------------------------------
(* process_inbound, stage by stage *)

\* lines 3045-3052: extraction error, parsed_payload
StageSave(s, d, payload) ==
  [s EXCEPT !.exceptionTasks[d] =
              IF payload.error THEN Append(@, ExceptionRow("OCR", "OCR extraction failed")) ELSE @,
            !.inbound[d].parsed_payload = payload]

\* lines 3054-3058
StageCreatePO(s, d, payload) ==
  IF DocType(d) = "FT" THEN create_po_from_nota_encomenda(s, d, payload) ELSE s

ProdutoValido(p) ==
  LET tem_codigo_valido == p.artigo # "" /\ Len(p.artigo) >= MinCodeLen
      tem_descricao_valida == p.descricao # "" /\ Len(p.descricao) >= MinDescLen
      tem_quantidade_valida == p.quantidade > 0
  IN (tem_codigo_valido \/ tem_descricao_valida) /\ tem_quantidade_valida

\* lines 3061-3121: the OCR-class exceptions of the pre-matching validation
ValidationIssues(payload) ==
  LET no_items == payload.produtos = <<>> /\ payload.lines = <<>>
      is_document_with_products ==
        Contains("FATURA", payload.tipo_documento) \/ Contains("GUIA", payload.tipo_documento)
      NotValid(p) == ~ProdutoValido(p)
      produtos_invalidos == Len(SelectSeq(payload.produtos, NotValid))
  IN (IF payload.texto_len < MinTextLen
        THEN <<"Ficheiro ilegivel - texto extraido muito curto">>
      ELSE IF is_document_with_products /\ no_items
        THEN <<"Ficheiro ilegivel - nenhum produto foi extraido">>
      ELSE <<>>)
     \o (IF payload.baixa_qualidade_texto /\ no_items
           THEN <<"Ficheiro ilegivel - qualidade de imagem muito baixa">>
         ELSE <<>>)
     \o (IF payload.produtos # <<>> /\ 2 * produtos_invalidos > Len(payload.produtos)
           THEN <<"Ficheiro desformatado">>
         ELSE <<>>)

StageValidate(s, d, payload) ==
  LET issues == ValidationIssues(payload)
  IN [s EXCEPT !.exceptionTasks[d] =
                 @ \o [i \in 1..Len(issues) |-> ExceptionRow("OCR", issues[i])]]

\* lines 3123-3136
StageReceiptLines(s, d, payload) ==
  LET mapped_lines == map_supplier_codes(s, Supplier(d), payload)
  IN [s EXCEPT !.receiptLines[d] =
                 [i \in 1..Len(mapped_lines) |-> ReceiptLineRow(mapped_lines[i])]]

\* lines 3138-3147
StageLinkPO(s, d, payload) ==
  IF s.inbound[d].po # None THEN s
  ELSE LET po_number == IF payload.po_number # "" THEN payload.po_number
                        ELSE payload.document_number
       IN IF po_number # "" /\ POIdx(s.purchaseOrders, po_number) # 0
          THEN [s EXCEPT !.inbound[d].po = po_number]
          ELSE s

-----------------------------------------------------------------------------
(* process_inbound: matching of a delivery document, lines 3149-3227 *)

\* mutant of TargetPO: the document's PO wins over the line's own token
TargetPODocumentFirst(pos, doc_po, po_number_extracted) ==
  IF doc_po # None THEN doc_po
  ELSE IF po_number_extracted # "" /\ POIdx(pos, po_number_extracted) # 0
  THEN po_number_extracted
  ELSE None

\* lines 3163-3172: the PO of the line's own token when it exists, else the
\* PO linked to the document (None when there is none)
TargetPO(pos, doc_po, po_number_extracted) ==
  IF po_number_extracted # "" /\ POIdx(pos, po_number_extracted) # 0
  THEN po_number_extracted
  ELSE doc_po

\* mutant of ResolveMapping: a mapping is created without looking one up
ResolveMappingNoLookup(maps, supplier, article_code) ==
  Append(maps, CodeMappingRow(supplier, article_code, article_code, AutoConfidence))

\* lines 3183-3197: the CodeMapping table after the lookup-or-create
ResolveMapping(maps, supplier, article_code) ==
  IF MappingIdx(maps, supplier, article_code) # 0 THEN maps
  ELSE Append(maps, CodeMappingRow(supplier, article_code, article_code, AutoConfidence))

\* mutant of Exceeds: the POLine's tolerance widens the ceiling
ExceedsBeyondTolerance(po_line, qty_new) ==
  po_line.qty_received + qty_new > po_line.qty_ordered + po_line.tolerance

\* mutant of Exceeds: what the POLine has received already is not counted
ExceedsOrderedAlone(po_line, qty_new) == qty_new > po_line.qty_ordered

\* line 3215
Exceeds(po_line, qty_new) == po_line.qty_received + qty_new > po_line.qty_ordered

\* one iteration of the loop over inbound.lines.all()
MatchLine(s, d, r) ==
  LET target_po == TargetPO(s.purchaseOrders, s.inbound[d].po, r.po_number_extracted)
      maps == ResolveMapping(s.codeMappings, Supplier(d), r.article_code)
      internal_sku == maps[MappingIdx(maps, Supplier(d), r.article_code)].internal_sku
      idx == POLineIdx(s.poLines, target_po, internal_sku)
      s1 == [s EXCEPT !.codeMappings = maps]
  IN IF target_po = None
       THEN [s |-> s, outcome |-> "PO nao encontrada", target_po |-> None, internal_sku |-> None]
     ELSE IF idx = 0
       THEN [s |-> s1, outcome |-> "Produto nao encontrado na PO",
             target_po |-> target_po, internal_sku |-> internal_sku]
     ELSE IF Exceeds(s.poLines[idx], r.qty_received)
       THEN [s |-> s1, outcome |-> "Quantidade excedida",
             target_po |-> target_po, internal_sku |-> internal_sku]
     ELSE [s |-> [s1 EXCEPT !.poLines[idx].qty_received = @ + r.qty_received],
           outcome |-> "ok", target_po |-> target_po, internal_sku |-> internal_sku]

\* mutant of Tally: a product missing from the PO is counted, not recorded
TallyUnrecorded(acc, r, outcome) ==
  IF outcome = "ok"
  THEN [acc EXCEPT !.ok = @ + 1]
  ELSE IF outcome = "Produto nao encontrado na PO"
  THEN [acc EXCEPT !.issues = @ + 1]
  ELSE [acc EXCEPT !.issues = @ + 1,
                   !.exceptions = Append(@, [line |-> r.article_code, issue |-> outcome])]

\* the counters and the exceptions list after a line with this outcome
Tally(acc, r, outcome) ==
  IF outcome = "ok"
  THEN [acc EXCEPT !.ok = @ + 1]
  ELSE [acc EXCEPT !.issues = @ + 1,
                   !.exceptions = Append(@, [line |-> r.article_code, issue |-> outcome])]

TraceEntry(s, r, m) ==
  [article_code |-> r.article_code, qty |-> r.qty_received,
   po_number_extracted |-> r.po_number_extracted,
   target_po |-> m.target_po, internal_sku |-> m.internal_sku, outcome |-> m.outcome,
   maps_before |-> s.codeMappings, maps_after |-> m.s.codeMappings,
   lines_before |-> s.poLines, lines_after |-> m.s.poLines]

RECURSIVE MatchLines(_, _, _)
MatchLines(acc, d, i) ==
  IF i > Len(acc.s.receiptLines[d]) THEN acc
  ELSE LET r == acc.s.receiptLines[d][i]
           m == MatchLine(acc.s, d, r)
           t == Tally(acc, r, m.outcome)
       IN MatchLines([t EXCEPT !.s = m.s,
                               !.trace = Append(@, TraceEntry(acc.s, r, m))], d, i + 1)

\* mutant of StageMatching: a document with an OCR-class exception is not
\* matched, its lines are counted as issues
StageMatchingGated(s, d, payload) ==
  LET start == [s |-> s, ok |-> 0, issues |-> 0, exceptions |-> <<>>, trace |-> <<>>]
  IN IF DocType(d) = "FT" THEN [start EXCEPT !.ok = Len(DocItems(payload))]
     ELSE IF OcrCount(s.exceptionTasks[d]) > 0
       THEN [start EXCEPT !.issues = Len(s.receiptLines[d])]
     ELSE MatchLines(start, d, 1)

\* lines 3149-3227: FT documents count the payload's entries, GR documents
\* are matched line by line
StageMatching(s, d, payload) ==
  LET start == [s |-> s, ok |-> 0, issues |-> 0, exceptions |-> <<>>, trace |-> <<>>]
  IN IF DocType(d) = "FT" THEN [start EXCEPT !.ok = Len(DocItems(payload))]
     ELSE MatchLines(start, d, 1)

-----------------------------------------------------------------------------
(* process_inbound: the MatchResult, lines 3229-3277 *)

ItemCode(item) ==
  IF "artigo" \in DOMAIN item THEN item.artigo ELSE item.supplier_code

\* lines 3235-3242; 0 stands for None
FirstErrorLine(payload, exceptions) ==
  LET doc_items == DocItems(payload)
      hits == {idx \in 1..Len(doc_items) :
                 /\ ItemCode(doc_items[idx]) # ""
                 /\ \E e \in 1..Len(exceptions) :
                      Contains(ItemCode(doc_items[idx]), exceptions[e].line)}
  IN IF exceptions = <<>> \/ hits = {} THEN 0 ELSE Min(hits)

\* lines 3260-3263
DocStatus(ocr_errors_exist, issues) ==
  IF ocr_errors_exist THEN "error"
  ELSE IF issues = 0 THEN "matched" ELSE "exceptions"

\* mutant of StageResult: the exceptions with line_ref "OCR" are deleted too
StageResultDeletesAll(m, d, payload) ==
  LET ocr_errors_exist == OcrCount(m.s.exceptionTasks[d]) > 0
      created == [i \in 1..Len(m.exceptions) |->
                    ExceptionRow(m.exceptions[i].line, m.exceptions[i].issue)]
      summary == [lines_ok |-> m.ok,
                  lines_issues |-> m.issues,
                  total_lines_in_document |-> Len(DocItems(payload)),
                  lines_read_successfully |-> m.ok,
                  first_error_line |-> FirstErrorLine(payload, m.exceptions),
                  last_successful_line |-> m.ok]
  IN [m.s EXCEPT !.exceptionTasks[d] = created,
                 !.matchResults[d] = [status |-> DocStatus(ocr_errors_exist, m.issues),
                                      summary |-> summary]]

\* lines 3229-3277
StageResult(m, d, payload) ==
  LET ocr_errors_exist == OcrCount(m.s.exceptionTasks[d]) > 0
      created == [i \in 1..Len(m.exceptions) |->
                    ExceptionRow(m.exceptions[i].line, m.exceptions[i].issue)]
      summary == [lines_ok |-> m.ok,
                  lines_issues |-> m.issues,
                  total_lines_in_document |-> Len(DocItems(payload)),
                  lines_read_successfully |-> m.ok,
                  first_error_line |-> FirstErrorLine(payload, m.exceptions),
                  last_successful_line |-> m.ok]
  IN [m.s EXCEPT !.exceptionTasks[d] = SelectSeq(@, IsOcr) \o created,
                 !.matchResults[d] = [status |-> DocStatus(ocr_errors_exist, m.issues),
                                      summary |-> summary]]

-----------------------------------------------------------------------------
(* process_inbound as a whole *)

\* the tables after each stage of one pass over document d
Run(s, d, payload) ==
  LET saved == StageSave(s, d, payload)
      po_created == StageCreatePO(saved, d, payload)
      validated == StageValidate(po_created, d, payload)
      lines_created == StageReceiptLines(validated, d, payload)
      linked == StageLinkPO(lines_created, d, payload)
      matched == StageMatching(linked, d, payload)
  IN [saved |-> saved, po_created |-> po_created, validated |-> validated,
      lines_created |-> lines_created, linked |-> linked, matched |-> matched,
      final |-> StageResult(matched, d, payload)]

\* the statements at which raising passes are explored, each an ORM call the
\* database can reject (django.db.Error): the INSERT of the first ReceiptLine
\* (3127, after the old lines were deleted) and the get_or_create of the
\* MatchResult (3229, after every other write of the pass except the result).
\* A pass that raised changed nothing, so behaviours are not explored past it.
Faults == {"ReceiptLine.create", "MatchResult.get_or_create"}

\* line 3126: the loop body runs only when there is a mapped line
CanRaise(d, payload, fault) ==
  fault = "ReceiptLine.create" => map_supplier_codes(DB, Supplier(d), payload) # <<>>

\* what the pass has written when it raises at `fault`
Written(run, d, fault) ==
  CASE fault = "ReceiptLine.create" -> [run.validated EXCEPT !.receiptLines[d] = <<>>]
    [] fault = "MatchResult.get_or_create" -> run.matched.s
    [] OTHER -> run.final

\* mutant of Atomic: the writes of a block that raises stay
AtomicNoRollback(before, written, raised) == written

\* @transaction.atomic: the writes of a block that raises are rolled back
Atomic(before, written, raised) == IF raised THEN before ELSE written

\* the payloads and statements with which raising passes are explored
RaisingPayloads(d) ==
  IF DocType(d) = "GR"
  THEN { ParsedPayload(150, "GUIA_GENERICA", <<Prod("A1234", "", 1, "")>>, <<>>, "", "P1"),
         ParsedPayload(150, "GUIA_GENERICA", <<Prod("B7", "", 1, "")>>, <<>>, "", "P1"),
         ErrorPayload }
  ELSE { ParsedPayload(150, "FATURA_GENERICA",
                       <<Prod("A1234", "", 1, "P3"), Prod("B7", "", MaxQty, "")>>, <<>>, "", "P3") }

\* the record of the latest pass: its document and payload, where it raised,
\* the tables before it and as it wrote them, its counters, exceptions list
\* and one trace entry per receipt line; prev_doc and prev_ocr look one pass
\* further back, streak counts the consecutive passes over the same document
\* with the same payload and origin is the POLine table before the first of
\* them
NoPass ==
  [doc |-> None, payload |-> EmptyPayload, fault |-> "none",
   prev_doc |-> None, prev_ocr |-> 0, streak |-> 0, origin |-> <<>>,
   before |-> None, written |-> None, ok |-> 0, issues |-> 0,
   exceptions |-> <<>>, trace |-> <<>>]

Commit(s) ==
  /\ purchaseOrders' = s.purchaseOrders
  /\ poLines' = s.poLines
  /\ codeMappings' = s.codeMappings
  /\ inbound' = s.inbound
  /\ receiptLines' = s.receiptLines
  /\ exceptionTasks' = s.exceptionTasks
  /\ matchResults' = s.matchResults

Pass(d, payload, fault) ==
  LET run == Run(DB, d, payload)
      written == Written(run, d, fault)
  IN /\ Commit(Atomic(DB, written, fault # "none"))
     /\ last' = [doc |-> d, payload |-> payload, fault |-> fault,
                 prev_doc |-> last.doc,
                 prev_ocr |-> IF last.doc = None THEN 0
                              ELSE OcrCount(last.before.exceptionTasks[last.doc]),
                 streak |-> IF last.doc = d /\ last.payload = payload
                            THEN last.streak + 1 ELSE 1,
                 origin |-> IF last.doc = d /\ last.payload = payload
                            THEN last.origin ELSE poLines,
                 before |-> DB, written |-> written,
                 ok |-> run.matched.ok, issues |-> run.matched.issues,
                 exceptions |-> run.matched.exceptions, trace |-> run.matched.trace]
     /\ UNCHANGED <<sess, lock, norm, parse, gemini>>

\* a pass that returns its MatchResult
ProcessInbound(d, payload) ==
  /\ passes < MaxPasses
  /\ last.fault = "none"
  /\ passes' = passes + 1
  /\ Pass(d, payload, "none")
  /\ UNCHANGED cascade

\* a pass that raises
ProcessInboundRaises(d, payload, fault) ==
  /\ passes < MaxPasses
  /\ last.fault = "none"
  /\ CanRaise(d, payload, fault)
  /\ passes' = passes + 1
  /\ Pass(d, payload, fault)
  /\ UNCHANGED cascade

Init ==
  /\ purchaseOrders = <<PORow("P1", "AUTO"), PORow("P2", "AUTO")>>
  /\ \E received \in {0, 1} :
       poLines = <<POLineRow("P1", "A1234", MaxQty + 1, received, 1),
                   POLineRow("P2", "A1234", 1, 0, 0)>>
  /\ codeMappings = <<CodeMappingRow("AUTO", "B7", "A1234", ManualConfidence)>>
  /\ inbound = [d \in Docs |-> [po |-> None, parsed_payload |-> EmptyPayload]]
  /\ receiptLines = [d \in Docs |-> <<>>]
  /\ exceptionTasks = [d \in Docs |-> <<>>]
  /\ matchResults = [d \in Docs |-> NoResult]
  /\ last = NoPass
  /\ passes = 0
  /\ sess = None
  /\ lock = None
  /\ cascade = None
  /\ norm = None
  /\ parse = None
  /\ gemini = None

Next ==
  \/ \E d \in Docs : \E payload \in Payloads(d) : ProcessInbound(d, payload)
  \/ \E d \in Docs : \E payload \in RaisingPayloads(d) : \E fault \in Faults :
       ProcessInboundRaises(d, payload, fault)

Spec == Init /\ [][Next]_vars

-----------------------------------------------------------------------------
(* Properties of a pass *)

Completed == last.doc # None /\ last.fault = "none"

Raised == last.doc # None /\ last.fault # "none"

DeliveryPass == Completed /\ DocType(last.doc) = "GR"

\* the latest pass re-ran the pass before it: same document, same payload
Reprocessed == Completed /\ last.streak >= 2

Resolved(t) ==
  t.target_po # None /\ POLineIdx(t.lines_before, t.target_po, t.internal_sku) # 0

LineBefore(t) == t.lines_before[POLineIdx(t.lines_before, t.target_po, t.internal_sku)]

OverDelivery(t) ==
  Resolved(t) /\ LineBefore(t).qty_received + t.qty > LineBefore(t).qty_ordered

Recorded(t, issue) ==
  /\ \E e \in 1..Len(last.exceptions) :
       last.exceptions[e] = [line |-> t.article_code, issue |-> issue]
  /\ \E e \in 1..Len(exceptionTasks[last.doc]) :
       exceptionTasks[last.doc][e] = ExceptionRow(t.article_code, issue)

IssueLines == {i \in 1..Len(last.trace) : last.trace[i].outcome # "ok"}

\* C1: in a pass over a delivery document, every receipt line whose resolved
\* POLine has qty_received + quantity > qty_ordered gets a quantity-exceeded
\* exception, is counted as an issue and leaves the POLine table as it was,
\* whatever the POLine's tolerance
C1_OverDeliveryRejected ==
  DeliveryPass =>
    \A i \in 1..Len(last.trace) :
      OverDelivery(last.trace[i]) =>
        /\ last.trace[i].outcome = "Quantidade excedida"
        /\ Recorded(last.trace[i], "Quantidade excedida")
        /\ matchResults[last.doc].summary.lines_issues = Cardinality(IssueLines)
        /\ last.trace[i].lines_after = last.trace[i].lines_before

\* a line that exceeds the order but stays within the POLine's tolerance
C1_Witness ==
  /\ DeliveryPass
  /\ \E i \in 1..Len(last.trace) :
       /\ OverDelivery(last.trace[i])
       /\ LineBefore(last.trace[i]).tolerance > 0
       /\ LineBefore(last.trace[i]).qty_received + last.trace[i].qty
            <= LineBefore(last.trace[i]).qty_ordered + LineBefore(last.trace[i]).tolerance

\* C2: when a delivery document is processed twice in succession with the
\* same payload, every POLine.qty_received after the second pass equals its
\* value after the first
C2_NoDoubleApply ==
  (Reprocessed /\ DocType(last.doc) = "GR") =>
    /\ Len(poLines) = Len(last.before.poLines)
    /\ \A i \in 1..Len(poLines) :
         poLines[i].qty_received = last.before.poLines[i].qty_received

\* C3: when a document is processed twice in succession with the same
\* payload, the MatchResult (status and summary) and the ReceiptLine rows
\* after the second pass equal those after the first
C3_IdempotentResult ==
  Reprocessed =>
    /\ matchResults[last.doc] = last.before.matchResults[last.doc]
    /\ receiptLines[last.doc] = last.before.receiptLines[last.doc]

\* C4: a document that has exactly one OCR-class exception still has exactly
\* one after being reprocessed twice
C4_OcrExceptionStaysSingle ==
  (Reprocessed /\ last.prev_doc = last.doc /\ last.prev_ocr = 1) =>
    OcrCount(exceptionTasks[last.doc]) = 1

\* C5: after a pass the status is "error" when the document has an exception
\* with line_ref "OCR", else "exceptions" when the pass counted an issue,
\* else "matched"
C5_StatusRule ==
  Completed =>
    matchResults[last.doc].status =
      IF OcrCount(exceptionTasks[last.doc]) > 0 THEN "error"
      ELSE IF matchResults[last.doc].summary.lines_issues > 0 THEN "exceptions"
      ELSE "matched"

\* C7: a pass that raises leaves every table as it was before the pass, and a
\* pass that returns leaves every table as the pass wrote it
C7_Atomicity ==
  /\ Raised => DB = last.before
  /\ Completed => DB = last.written

\* a pass that raised after it had written receipt lines, a CodeMapping and a
\* POLine quantity
C7_Witness ==
  /\ Raised
  /\ last.written.receiptLines # last.before.receiptLines
  /\ last.written.codeMappings # last.before.codeMappings
  /\ last.written.poLines # last.before.poLines
  /\ last.written.inbound # last.before.inbound

MappingRows(maps, supplier, supplier_code) ==
  {j \in 1..Len(maps) : maps[j].supplier = supplier /\ maps[j].supplier_code = supplier_code}

Unmapped(t) ==
  t.target_po # None /\ MappingRows(t.maps_before, Supplier(last.doc), t.article_code) = {}

\* C8: a delivery line with a target PO whose code has no CodeMapping gets
\* exactly one, with confidence 0.5 and the code as internal SKU; no
\* (supplier, code) ever has two; the line is ok when the POLine of that SKU
\* exists and the quantity fits
C8_AutoMapping ==
  /\ \A j, k \in 1..Len(codeMappings) :
       (codeMappings[j].supplier = codeMappings[k].supplier
        /\ codeMappings[j].supplier_code = codeMappings[k].supplier_code) => j = k
  /\ DeliveryPass =>
       \A i \in 1..Len(last.trace) :
         LET t == last.trace[i]
         IN Unmapped(t) =>
              /\ t.maps_after =
                   Append(t.maps_before,
                          CodeMappingRow(Supplier(last.doc), t.article_code, t.article_code, 5))
              /\ (POLineIdx(t.lines_before, t.target_po, t.article_code) # 0 /\ ~OverDelivery(t))
                   => t.outcome = "ok"

\* a reprocessed document whose payload has the same unmapped code on two
\* lines, both counted ok
C8_Witness ==
  /\ DeliveryPass
  /\ \E i, j \in 1..Len(last.trace) :
       /\ i < j
       /\ last.trace[i].article_code = last.trace[j].article_code
       /\ Unmapped(last.trace[i])
       /\ last.trace[i].outcome = "ok"
       /\ last.trace[j].outcome = "ok"

ExpectedTarget(t) ==
  IF t.po_number_extracted # ""
     /\ \E k \in 1..Len(purchaseOrders) : purchaseOrders[k].number = t.po_number_extracted
  THEN t.po_number_extracted
  ELSE inbound[last.doc].po

\* C9: the target PO of a delivery line is the PO of its own token when that
\* PO exists, else the document's PO; with neither the line gets a
\* PO-not-found exception, is an issue, and creates and changes nothing
C9_TargetResolution ==
  DeliveryPass =>
    \A i \in 1..Len(last.trace) :
      LET t == last.trace[i]
      IN /\ t.target_po = ExpectedTarget(t)
         /\ ExpectedTarget(t) = None =>
              /\ t.outcome = "PO nao encontrada"
              /\ Recorded(t, "PO nao encontrada")
              /\ i \in IssueLines
              /\ t.maps_after = t.maps_before
              /\ t.lines_after = t.lines_before

\* a line matched against the PO of its own token although the document is
\* linked to another PO
C9_Witness ==
  /\ DeliveryPass
  /\ \E i \in 1..Len(last.trace) :
       /\ last.trace[i].po_number_extracted # ""
       /\ last.trace[i].target_po = last.trace[i].po_number_extracted
       /\ inbound[last.doc].po \notin {None, last.trace[i].target_po}
       /\ last.trace[i].outcome = "ok"

MatchingIssues == {"PO nao encontrada", "Produto nao encontrado na PO", "Quantidade excedida"}

IssueRows ==
  LET order == SortedSeq(IssueLines)
  IN [k \in 1..Len(order) |->
        ExceptionRow(last.trace[order[k]].article_code, last.trace[order[k]].outcome)]

\* C10: a pass over a delivery document classifies each ReceiptLine once:
\* lines_ok + lines_issues is the number of ReceiptLines, the exceptions the
\* pass writes are one per issue line, in order, each of a matching class,
\* and a line whose (target PO, SKU) has no POLine is an issue that changes
\* no POLine
C10_LineClassification ==
  DeliveryPass =>
    LET summary == matchResults[last.doc].summary
        excs == exceptionTasks[last.doc]
    IN /\ Len(last.trace) = Len(receiptLines[last.doc])
       /\ summary.lines_ok + summary.lines_issues = Len(receiptLines[last.doc])
       /\ summary.lines_issues = Cardinality(IssueLines)
       /\ \A i \in IssueLines : last.trace[i].outcome \in MatchingIssues
       /\ Len(excs) >= Len(IssueRows)
       /\ SubSeq(excs, Len(excs) - Len(IssueRows) + 1, Len(excs)) = IssueRows
       /\ \A e \in 1..(Len(excs) - Len(IssueRows)) : excs[e].line_ref = "OCR"
       /\ \A i \in 1..Len(last.trace) :
            LET t == last.trace[i]
            IN (t.target_po # None
                /\ POLineIdx(t.lines_before, t.target_po, t.internal_sku) = 0)
                 => /\ t.outcome = "Produto nao encontrado na PO"
                    /\ t.lines_after = t.lines_before

\* a pass with a line missing from its PO next to a line counted ok
C10_Witness ==
  /\ DeliveryPass
  /\ \E i, j \in 1..Len(last.trace) :
       /\ last.trace[i].outcome = "Produto nao encontrado na PO"
       /\ last.trace[j].outcome = "ok"

OrderPass == Completed /\ DocType(last.doc) = "FT"

\* C11: after a pass, the document's exceptions with line_ref other than
\* "OCR" are exactly the exceptions of the failing receipt lines of that
\* pass, in order, and no exception of a failing receipt line is among the
\* OCR-class rows
C11_MatchingExceptionsReplaced ==
  Completed =>
    /\ SelectSeq(exceptionTasks[last.doc], NotOcr) =
         [e \in 1..Len(last.exceptions) |->
            ExceptionRow(last.exceptions[e].line, last.exceptions[e].issue)]
    /\ \A e \in 1..Len(exceptionTasks[last.doc]) :
         exceptionTasks[last.doc][e].issue \in MatchingIssues
           => NotOcr(exceptionTasks[last.doc][e])

\* the entries of the payload the materializer turned into a POLine
Materialized(payload) ==
  {i \in 1..Len(POItems(payload)) :
     POItems(payload)[i].code # "" /\ POItems(payload)[i].quantidade > 0}

\* C12: a pass over an order confirmation changes no qty_received, leaves no
\* matching-class exception, and without an OCR-class exception its status
\* is "matched" with lines_ok the number of entries materialized into POLines
C12_OrderSkipsMatching ==
  OrderPass =>
    /\ \A i \in 1..Len(last.before.poLines) :
         poLines[i].qty_received = last.before.poLines[i].qty_received
    /\ SelectSeq(exceptionTasks[last.doc], NotOcr) = <<>>
    /\ OcrCount(exceptionTasks[last.doc]) = 0 =>
         /\ matchResults[last.doc].status = "matched"
         /\ matchResults[last.doc].summary.lines_ok = Cardinality(Materialized(last.payload))

\* the order number the claim gives an entry of the payload
OrderNumberOf(item, payload, d) ==
  IF item.numero_encomenda # "" THEN item.numero_encomenda
  ELSE IF payload.document_number # "" THEN payload.document_number
  ELSE IF payload.po_number # "" THEN payload.po_number
  ELSE "PO-" \o d

RECURSIVE SumQty(_, _)
SumQty(items, S) ==
  IF S = {} THEN 0
  ELSE LET i == Min(S) IN items[i].quantidade + SumQty(items, S \ {i})

\* the quantity the latest pass's payload orders of (po, sku)
OrderedByPass(po, sku) ==
  LET items == POItems(last.payload)
  IN SumQty(items, {i \in Materialized(last.payload) :
                      /\ items[i].code = sku
                      /\ OrderNumberOf(items[i], last.payload, last.doc) = po})

\* C13: there is never a second POLine of a (PO, SKU); a pass over an order
\* confirmation adds to qty_ordered of each existing POLine the quantities
\* its payload orders of that (PO, SKU), gives a new POLine exactly those
\* quantities, and changes no qty_received
C13_Accumulation ==
  /\ \A i, j \in 1..Len(poLines) :
       (poLines[i].po = poLines[j].po /\ poLines[i].internal_sku = poLines[j].internal_sku)
         => i = j
  /\ OrderPass =>
       /\ Len(poLines) >= Len(last.before.poLines)
       /\ \A i \in 1..Len(poLines) :
            LET old == IF i <= Len(last.before.poLines) THEN last.before.poLines[i]
                       ELSE [poLines[i] EXCEPT !.qty_ordered = 0, !.qty_received = 0]
            IN /\ poLines[i].po = old.po
               /\ poLines[i].internal_sku = old.internal_sku
               /\ poLines[i].qty_received = old.qty_received
               /\ poLines[i].qty_ordered =
                    old.qty_ordered + OrderedByPass(old.po, old.internal_sku)

\* an order confirmation added to a POLine that had already received goods
C13_Witness ==
  /\ OrderPass
  /\ \E i \in 1..Len(last.before.poLines) :
       /\ last.before.poLines[i].qty_received > 0
       /\ poLines[i].qty_ordered > last.before.poLines[i].qty_ordered

POKeys(lines) == {<<lines[i].po, lines[i].internal_sku>> : i \in 1..Len(lines)}

PONumbers(pos) == {pos[k].number : k \in 1..Len(pos)}

RECURSIVE Delivered(_, _)
Delivered(line, k) ==
  IF k = 0 THEN 0
  ELSE (IF last.trace[k].outcome = "ok" /\ last.trace[k].target_po = line.po
           /\ last.trace[k].internal_sku = line.internal_sku
        THEN last.trace[k].qty ELSE 0) + Delivered(line, k - 1)

\* C25: over any sequence of passes no POLine's qty_received ever goes down,
\* and a pass changes it only by the quantities of the delivery receipt
\* lines it counted ok
C25_ReceivedNeverDecremented ==
  last.doc # None =>
    \A i \in 1..Len(last.before.poLines) :
      /\ poLines[i].qty_received >= last.before.poLines[i].qty_received
      /\ poLines[i].qty_received # last.before.poLines[i].qty_received
           => /\ DeliveryPass
              /\ poLines[i].qty_received =
                   last.before.poLines[i].qty_received
                     + Delivered(last.before.poLines[i], Len(last.trace))

\* C26: starting from POLines with qty_received <= qty_ordered, after any
\* sequence of passes over delivery documents and order confirmations every
\* POLine has qty_received <= qty_ordered
C26_ReceivedWithinOrdered ==
  \A i \in 1..Len(poLines) : poLines[i].qty_received <= poLines[i].qty_ordered

\* a delivery that filled a POLine to exactly its ordered quantity
C26_Witness ==
  /\ DeliveryPass
  /\ \E i \in 1..Len(last.before.poLines) :
       /\ poLines[i].qty_received > last.before.poLines[i].qty_received
       /\ poLines[i].qty_received = poLines[i].qty_ordered

OcrRows(excs) == SelectSeq(excs, IsOcr)

\* the OCR-class exceptions a pass with this payload records
OcrRecorded(payload) == (IF payload.error THEN 1 ELSE 0) + Len(ValidationIssues(payload))

\* C27: no pass deletes an exception with line_ref "OCR": the document keeps
\* those it had and those the pass recorded; and a pass over a document that
\* had one ends with status "error", whatever the pass extracted and matched
C27_ErrorAbsorbing ==
  Completed =>
    LET had == OcrRows(last.before.exceptionTasks[last.doc])
        has == OcrRows(exceptionTasks[last.doc])
    IN /\ Len(has) >= Len(had) + OcrRecorded(last.payload)
       /\ SubSeq(has, 1, Len(had)) = had
       /\ had # <<>> => matchResults[last.doc].status = "error"

\* a pass that recorded nothing and matched every line, over a document
\* with an OCR-class exception of an earlier pass
C27_Witness ==
  /\ DeliveryPass
  /\ OcrRows(last.before.exceptionTasks[last.doc]) # <<>>
  /\ OcrRecorded(last.payload) = 0
  /\ last.ok > 0
  /\ last.issues = 0
  /\ matchResults[last.doc].status = "error"

\* the line of the trace is of a POLine and fits its ordered quantity
Fits(t) == Resolved(t) /\ ~OverDelivery(t)

\* C28: a pass over a delivery document whose validation records an
\* illegibility or malformed exception while the payload has product lines
\* still creates the ReceiptLines, and every line that matches a POLine
\* within the ordered quantity adds its quantity to qty_received; the pass
\* ends with status "error"
C28_ValidationDoesNotGate ==
  (DeliveryPass /\ ValidationIssues(last.payload) # <<>> /\ DocItems(last.payload) # <<>>) =>
    /\ Len(receiptLines[last.doc]) = Len(DocItems(last.payload))
    /\ Len(last.trace) = Len(receiptLines[last.doc])
    /\ \A i \in 1..Len(last.trace) :
         LET t == last.trace[i]
             k == POLineIdx(t.lines_before, t.target_po, t.internal_sku)
         IN Fits(t) =>
              /\ t.outcome = "ok"
              /\ t.lines_after =
                   [t.lines_before EXCEPT ![k].qty_received = @ + t.qty]
    /\ matchResults[last.doc].status = "error"

\* a delivery of one unit on a text too short to be legible, committed
C28_Witness ==
  /\ DeliveryPass
  /\ ValidationIssues(last.payload) # <<>>
  /\ \E i \in 1..Len(last.trace) : Fits(last.trace[i]) /\ last.trace[i].qty > 0
  /\ \E i \in 1..Len(poLines) :
       poLines[i].qty_received > last.before.poLines[i].qty_received
  /\ matchResults[last.doc].status = "error"

\* the entries of the latest payload that are alone in ordering their
\* (order number, code), which had no POLine before the streak of passes
OrderedOnce ==
  LET items == POItems(last.payload)
      number(i) == OrderNumberOf(items[i], last.payload, last.doc)
  IN {i \in Materialized(last.payload) :
        /\ \A j \in Materialized(last.payload) :
             (number(j) = number(i) /\ items[j].code = items[i].code) => j = i
        /\ POLineIdx(last.origin, number(i), items[i].code) = 0}

\* C29: after k passes in succession over the same order confirmation with
\* the same payload, the POLine of an entry whose (order, code) occurs once
\* in the payload and had no POLine before has qty_ordered k times the
\* entry's quantity
C29_OrderedGrowsWithEachPass ==
  OrderPass =>
    \A i \in OrderedOnce :
      LET item == POItems(last.payload)[i]
          k == POLineIdx(poLines, OrderNumberOf(item, last.payload, last.doc), item.code)
      IN /\ k # 0
         /\ poLines[k].qty_ordered = last.streak * item.quantidade

\* a third pass in a row that tripled the ordered quantity
C29_Witness ==
  /\ OrderPass
  /\ last.streak = MaxPasses
  /\ \E i \in OrderedOnce :
       LET item == POItems(last.payload)[i]
           k == POLineIdx(poLines, OrderNumberOf(item, last.payload, last.doc), item.code)
       IN poLines[k].qty_ordered = MaxPasses * item.quantidade /\ item.quantidade > 1

\* C30: after a pass over a delivery document, total_lines_in_document of
\* the summary is the number of ReceiptLines the pass created and at least
\* lines_ok + lines_issues, with the products under "produtos" and with the
\* legacy list under "lines"
C30_SummaryConsistency ==
  DeliveryPass =>
    LET summary == matchResults[last.doc].summary
    IN /\ summary.total_lines_in_document = Len(receiptLines[last.doc])
       /\ summary.total_lines_in_document >= summary.lines_ok + summary.lines_issues

-----------------------------------------------------------------------------
(* Two passes at once over two delivery documents of the same POLine *)

(***************************************************************************)
(* Each session runs process_inbound inside its own transaction            *)
(* (@transaction.atomic, no select_for_update anywhere).  What the         *)
(* database does with two open transactions is not fixed by the            *)
(* repository, so it is a choice made in the initial state:                *)
(*   "database"  one writer at a time for the whole database; the pass     *)
(*               becomes the writer at its first write (inbound.save(),    *)
(*               line 3052) or raises when the wait times out;             *)
(*   "row"       row locks with read-committed visibility: a read sees the *)
(*               committed row (or the session's own write), an UPDATE     *)
(*               waits for the row lock and then stores the value the      *)
(*               session computed.                                         *)
(* Both documents are linked to P1 and their lines carry the code A1234,   *)
(* which is mapped, so the POLine P1/A1234 (poLines[1]) is the only row    *)
(* the sessions share.                                                     *)
(***************************************************************************)

Sessions == {1, 2}

SessionLines == {<<1>>, <<MaxQty>>, <<1, 1>>}

\* the POLine row as session p sees it
VisibleRow(p) ==
  IF lock.row = p THEN [poLines[1] EXCEPT !.qty_received = lock.pending] ELSE poLines[1]

\* lines 3045-3052: the first write of the pass
BeginPass(p) ==
  /\ sess[p].pc = "start"
  /\ lock.backend = "database" => lock.db = 0
  /\ lock' = IF lock.backend = "database" THEN [lock EXCEPT !.db = p] ELSE lock
  /\ sess' = [sess EXCEPT ![p].pc = "read"]
  /\ UNCHANGED <<purchaseOrders, poLines, codeMappings, inbound, receiptLines,
                 exceptionTasks, matchResults, last, passes, cascade, norm, parse, gemini>>

\* the first write gives up waiting for the other writer: the pass raises
BusyTimeout(p) ==
  /\ sess[p].pc = "start"
  /\ lock.backend = "database"
  /\ lock.db \notin {0, p}
  /\ sess' = [sess EXCEPT ![p].pc = "raised"]
  /\ UNCHANGED <<purchaseOrders, poLines, codeMappings, inbound, receiptLines,
                 exceptionTasks, matchResults, last, passes, lock, cascade, norm, parse, gemini>>

\* line 3200: po_line = POLine.objects.filter(...).first()
ReadPOLine(p) ==
  /\ sess[p].pc = "read"
  /\ sess' = [sess EXCEPT ![p].pc = "match", ![p].po_line = VisibleRow(p)]
  /\ UNCHANGED <<purchaseOrders, poLines, codeMappings, inbound, receiptLines,
                 exceptionTasks, matchResults, last, passes, lock, cascade, norm, parse, gemini>>

NextLine(p) == IF sess[p].i = Len(sess[p].lines) THEN "commit" ELSE "read"

\* lines 3210-3221: the quantity exceeds the order as read
RejectLine(p) ==
  /\ sess[p].pc = "match"
  /\ Exceeds(sess[p].po_line, sess[p].lines[sess[p].i])
  /\ sess' = [sess EXCEPT ![p].pc = NextLine(p), ![p].i = @ + 1, ![p].issues = @ + 1]
  /\ UNCHANGED <<purchaseOrders, poLines, codeMappings, inbound, receiptLines,
                 exceptionTasks, matchResults, last, passes, lock, cascade, norm, parse, gemini>>

\* lines 3210-3227: po_line.qty_received = qty_total_received; po_line.save()
SavePOLine(p) ==
  /\ sess[p].pc = "match"
  /\ ~Exceeds(sess[p].po_line, sess[p].lines[sess[p].i])
  /\ lock.row \in {0, p}
  /\ lock' = [lock EXCEPT !.row = p,
                          !.pending = sess[p].po_line.qty_received + sess[p].lines[sess[p].i]]
  /\ sess' = [sess EXCEPT ![p].pc = NextLine(p), ![p].i = @ + 1, ![p].ok = @ + 1,
                          ![p].ok_qty = @ + sess[p].lines[sess[p].i]]
  /\ UNCHANGED <<purchaseOrders, poLines, codeMappings, inbound, receiptLines,
                 exceptionTasks, matchResults, last, passes, cascade, norm, parse, gemini>>

\* the pass returns and its transaction commits
CommitPass(p) ==
  /\ sess[p].pc = "commit"
  /\ poLines' = IF lock.row = p THEN [poLines EXCEPT ![1].qty_received = lock.pending]
                ELSE poLines
  /\ lock' = [lock EXCEPT !.row = IF @ = p THEN 0 ELSE @,
                          !.db = IF @ = p THEN 0 ELSE @]
  /\ sess' = [sess EXCEPT ![p].pc = "done"]
  /\ UNCHANGED <<purchaseOrders, codeMappings, inbound, receiptLines,
                 exceptionTasks, matchResults, last, passes, cascade, norm, parse, gemini>>

InitConcurrent ==
  /\ purchaseOrders = <<PORow("P1", "AUTO")>>
  /\ \E received \in {0, 1} :
       /\ poLines = <<POLineRow("P1", "A1234", MaxQty + 1, received, 0)>>
       /\ \E backend \in {"database", "row"} :
            lock = [backend |-> backend, db |-> 0, row |-> 0, pending |-> received,
                    initial |-> received]
  /\ codeMappings = <<CodeMappingRow("AUTO", "A1234", "A1234", ManualConfidence)>>
  /\ inbound = [d \in Docs |-> [po |-> "P1", parsed_payload |-> EmptyPayload]]
  /\ receiptLines = [d \in Docs |-> <<>>]
  /\ exceptionTasks = [d \in Docs |-> <<>>]
  /\ matchResults = [d \in Docs |-> NoResult]
  /\ last = NoPass
  /\ passes = 0
  /\ sess \in [Sessions -> {[pc |-> "start", lines |-> l, i |-> 1, po_line |-> None,
                             ok |-> 0, ok_qty |-> 0, issues |-> 0] : l \in SessionLines}]
  /\ cascade = None
  /\ norm = None
  /\ parse = None
  /\ gemini = None

NextConcurrent ==
  \E p \in Sessions :
    \/ BeginPass(p)
    \/ BusyTimeout(p)
    \/ ReadPOLine(p)
    \/ RejectLine(p)
    \/ SavePOLine(p)
    \/ CommitPass(p)

SpecConcurrent == InitConcurrent /\ [][NextConcurrent]_vars

AllReturned == \A p \in Sessions : sess[p].pc \in {"done", "raised"}

\* C6: when two passes over delivery documents of the same POLine have both
\* ended, qty_received is its initial value plus the quantities of the lines
\* the passes counted ok, and it is at most qty_ordered
C6_NoLostUpdate ==
  AllReturned =>
    /\ poLines[1].qty_received = lock.initial + sess[1].ok_qty + sess[2].ok_qty
    /\ poLines[1].qty_received <= poLines[1].qty_ordered

-----------------------------------------------------------------------------
(* From the stored file to the payload *)

(***************************************************************************)
(* real_ocr_extract with extract_text_from_pdf and                         *)
(* extract_text_from_image, then the choice of the payload at the head of  *)
(* process_inbound, then the pass itself.  The PDF libraries, the OCR      *)
(* engines, the parsers and the LLM are outside the repository: what each  *)
(* returns is an input of the step that calls it.  A text is its length    *)
(* after strip(); cascade.calls lists the strategies invoked with the      *)
(* length each returned.                                                   *)
(***************************************************************************)

\* lines 727, 773, 793: a strategy's text is returned when longer than this
MinStrategyLen == 50

\* line 3036: len("Dados extraidos via Ollama LLM")
LLMPlaceholderLen == 30

\* lines 721, 1058: len("--- Pagina 1 ---\n")
PageMarkerLen == 17

\* line 674: the product code [A-Z]{3}\d{12}
ProductCodeLen == 15

TextLens == {0, 30, 50, 150}

Extensions == {"pdf", "image", "other"}

DetectedTypes == {"GUIA_GENERICA", "DOCUMENTO_GENERICO"}

\* what the parsers find in a text: nothing, products, or legacy lines; a
\* text of 30 characters is explored without a product in it
ParserResults(len) ==
  {[produtos |-> <<>>, lines |-> <<>>]}
    \cup (IF len >= MinStrategyLen
            THEN {[produtos |-> <<Prod("A1234", "", 1, "")>>, lines |-> <<>>],
                  [produtos |-> <<>>, lines |-> <<LegacyLine("A1234", 1)>>]}
          ELSE {})

\* what ollama_extract_document returns: None without a configured LLM, None
\* after a failed call, or the LLM's JSON
LLMAnswers ==
  {[status |-> "unconfigured", produtos |-> <<>>, numero_encomenda |-> ""],
   [status |-> "failed", produtos |-> <<>>, numero_encomenda |-> ""],
   [status |-> "answered",
    produtos |-> <<[codigo |-> "A1234", descricao |-> "", quantidade |-> 1,
                    numero_encomenda |-> ""]>>,
    numero_encomenda |-> "P1"]}

Environments ==
  [pymupdf : BOOLEAN, qr_enabled : BOOLEAN, renders : BOOLEAN, page_codes : {<<>>, <<"QR">>}]

NewCascade(d, ext, env) ==
  [pc |-> "start", doc |-> d, ext |-> ext, env |-> env, calls |-> <<>>,
   text_len |-> 0, page_marker |-> FALSE, scanned |-> FALSE, qr_codes |-> <<>>,
   parsed |-> FALSE, ocr_payload |-> EmptyPayload, payload |-> EmptyPayload]

Call(c, strategy, len) ==
  [c EXCEPT !.calls = Append(@, [strategy |-> strategy, len |-> len])]

\* lines 731-740, 776-786, 795-804: the QR scan of a strategy that returns
ScanPages(c) ==
  IF c.env.qr_enabled /\ c.env.renders
  THEN [c EXCEPT !.scanned = TRUE, !.qr_codes = c.env.page_codes]
  ELSE c

ExtractUnchanged ==
  UNCHANGED <<purchaseOrders, poLines, codeMappings, inbound, receiptLines,
              exceptionTasks, matchResults, last, passes, sess, lock, norm, parse, gemini>>

\* lines 615-632: the dispatch on the file's extension
BeginExtract ==
  /\ cascade.pc = "start"
  /\ cascade' = [cascade EXCEPT !.pc = CASE cascade.ext = "pdf" -> "level1"
                                         [] cascade.ext = "image" -> "image"
                                         [] OTHER -> "parse"]
  /\ ExtractUnchanged

\* lines 761-763 with extract_with_pymupdf
ExtractWithPyMuPDF(len) ==
  /\ cascade.pc = "level1"
  /\ cascade' =
       IF ~cascade.env.pymupdf THEN [cascade EXCEPT !.pc = "level2"]
       ELSE IF len > MinStrategyLen
       THEN [ScanPages(Call(cascade, "pymupdf", len)) EXCEPT
               !.text_len = len, !.page_marker = TRUE, !.pc = "parse"]
       ELSE [Call(cascade, "pymupdf", len) EXCEPT !.pc = "level2"]
  /\ ExtractUnchanged

\* lines 765-787, and 811-813 when PyPDF2 raises
ExtractWithPyPDF2(len, raises) ==
  /\ cascade.pc = "level2"
  /\ cascade' =
       IF raises THEN [Call(cascade, "pypdf2", 0) EXCEPT !.pc = "level4"]
       ELSE IF len > MinStrategyLen
       THEN [ScanPages(Call(cascade, "pypdf2", len)) EXCEPT !.text_len = len, !.pc = "parse"]
       ELSE [Call(cascade, "pypdf2", len) EXCEPT !.pc = "level3"]
  /\ ExtractUnchanged

\* lines 789-805 with ocr_space_api
OcrSpaceApi(len) ==
  /\ cascade.pc = "level3"
  /\ cascade' =
       IF len > MinStrategyLen
       THEN [ScanPages(Call(cascade, "ocr_space", len)) EXCEPT !.text_len = len, !.pc = "parse"]
       ELSE [Call(cascade, "ocr_space", len) EXCEPT !.pc = "level4"]
  /\ ExtractUnchanged

\* lines 807-809 with extract_text_from_pdf_with_ocr
ExtractTextFromPdfWithOcr(len) ==
  /\ cascade.pc = "level4"
  /\ cascade' =
       IF ~cascade.env.renders
       THEN [Call(cascade, "local", 0) EXCEPT !.text_len = 0, !.pc = "parse"]
       ELSE [Call(cascade, "local", len) EXCEPT
               !.text_len = len, !.page_marker = len > 0,
               !.scanned = cascade.env.qr_enabled,
               !.qr_codes = IF cascade.env.qr_enabled THEN cascade.env.page_codes ELSE <<>>,
               !.pc = "parse"]
  /\ ExtractUnchanged

\* extract_text_from_image
ExtractTextFromImage(len) ==
  /\ cascade.pc = "image"
  /\ cascade' =
       IF ~cascade.env.renders
       THEN [Call(cascade, "local", 0) EXCEPT !.text_len = 0, !.pc = "parse"]
       ELSE [Call(cascade, "local", len) EXCEPT
               !.text_len = len,
               !.scanned = cascade.env.qr_enabled,
               !.qr_codes = IF cascade.env.qr_enabled THEN cascade.env.page_codes ELSE <<>>,
               !.pc = "parse"]
  /\ ExtractUnchanged

\* lines 647-664: no text, the error result
ReturnErrorResult ==
  /\ cascade.pc = "parse"
  /\ cascade.text_len = 0
  /\ cascade' = [cascade EXCEPT !.ocr_payload = ErrorPayload, !.pc = "select"]
  /\ ExtractUnchanged

\* lines 666-696: parse_portuguese_document, and once more over pdfplumber's
\* text when the text has page markers and product codes but no product
\* was parsed
ParseText(tipo, result, tem_codigos, pdfplumber_len, pdfplumber_result) ==
  /\ cascade.pc = "parse"
  /\ cascade.text_len > 0
  /\ tem_codigos => cascade.text_len >= PageMarkerLen + ProductCodeLen
  /\ LET first == ParsedPayload(cascade.text_len, tipo, result.produtos, result.lines, "", "P1")
         falls_back == /\ cascade.page_marker
                       /\ result.produtos = <<>>
                       /\ cascade.ext = "pdf"
                       /\ tem_codigos
         second == [ParsedPayload(pdfplumber_len, tipo, pdfplumber_result.produtos,
                                  pdfplumber_result.lines, "", "P1")
                      EXCEPT !.baixa_qualidade_texto = FALSE]
         c == IF falls_back THEN Call(cascade, "pdfplumber", pdfplumber_len) ELSE cascade
     IN cascade' = [c EXCEPT !.parsed = TRUE,
                             !.ocr_payload = IF falls_back /\ pdfplumber_len > 0
                                             THEN second ELSE first,
                             !.pc = "select"]
  /\ ExtractUnchanged

\* lines 2998-3043: the OCR payload when it has products or lines, else the
\* LLM's answer when it has products, else the OCR payload
SelectPayload(answer) ==
  /\ cascade.pc = "select"
  /\ LET ocr == cascade.ocr_payload
         ocr_text_len == IF HasKey(ocr, "texto_completo") THEN ocr.texto_len ELSE 0
         ocr_produtos == (IF HasKey(ocr, "produtos") THEN Len(ocr.produtos) ELSE 0)
                         + (IF HasKey(ocr, "lines") THEN Len(ocr.lines) ELSE 0)
         called == IF answer.status = "unconfigured" THEN cascade
                   ELSE Call(cascade, "llm", 0)
     IN cascade' =
          IF ocr_produtos > 0 THEN [cascade EXCEPT !.payload = ocr, !.pc = "process"]
          ELSE IF answer.produtos # <<>>
          THEN [called EXCEPT
                  !.payload = LLMPayload(IF ocr_text_len > 0 THEN ocr_text_len
                                         ELSE LLMPlaceholderLen, answer),
                  !.pc = "process"]
          ELSE [called EXCEPT !.payload = ocr, !.pc = "process"]
  /\ ExtractUnchanged

\* lines 3045-3277: the pass over the chosen payload
ProcessPayload ==
  /\ cascade.pc = "process"
  /\ passes' = passes + 1
  /\ Pass(cascade.doc, cascade.payload, "none")
  /\ cascade' = [cascade EXCEPT !.pc = "done"]

InitExtract ==
  /\ purchaseOrders = <<PORow("P1", "AUTO")>>
  /\ poLines = <<POLineRow("P1", "A1234", MaxQty, 0, 0)>>
  /\ codeMappings = <<>>
  /\ inbound = [d \in Docs |-> [po |-> None, parsed_payload |-> EmptyPayload]]
  /\ receiptLines = [d \in Docs |-> <<>>]
  /\ exceptionTasks = [d \in Docs |-> <<>>]
  /\ matchResults = [d \in Docs |-> NoResult]
  /\ last = NoPass
  /\ passes = 0
  /\ sess = None
  /\ lock = None
  /\ norm = None
  /\ parse = None
  /\ gemini = None
  /\ \E d \in Docs : \E ext \in Extensions : \E env \in Environments :
       cascade = NewCascade(d, ext, env)

NextExtract ==
  \/ BeginExtract
  \/ \E len \in TextLens : ExtractWithPyMuPDF(len)
  \/ \E len \in TextLens : \E raises \in BOOLEAN : ExtractWithPyPDF2(len, raises)
  \/ \E len \in TextLens : OcrSpaceApi(len)
  \/ \E len \in TextLens : ExtractTextFromPdfWithOcr(len)
  \/ \E len \in TextLens : ExtractTextFromImage(len)
  \/ ReturnErrorResult
  \/ \E tipo \in DetectedTypes : \E result \in ParserResults(cascade.text_len) :
       \E tem_codigos \in BOOLEAN : \E pdfplumber_len \in TextLens :
         \E pdfplumber_result \in ParserResults(pdfplumber_len) :
           ParseText(tipo, result, tem_codigos, pdfplumber_len, pdfplumber_result)
  \/ \E answer \in LLMAnswers : SelectPayload(answer)
  \/ ProcessPayload

SpecExtract == InitExtract /\ [][NextExtract]_vars

\* the pass over the extracted document has returned
Extracted == cascade.pc = "done"

TextStrategies == {"pymupdf", "pypdf2", "ocr_space", "local", "pdfplumber"}

\* text-extraction strategies were invoked and every one returned no text
AllTextEmpty ==
  /\ cascade.text_len = 0
  /\ \E i \in 1..Len(cascade.calls) : cascade.calls[i].strategy \in TextStrategies
  /\ \A i \in 1..Len(cascade.calls) :
       cascade.calls[i].strategy \in TextStrategies => cascade.calls[i].len = 0

\* C15: when every text-extraction strategy returned empty text, the pass
\* parses no line, leaves the document without ReceiptLines and the POLines
\* as they were, records an extraction exception with line_ref "OCR", no
\* matching exception, and ends with status "error"
C15_ExtractionFailure ==
  (Extracted /\ AllTextEmpty) =>
    /\ ~cascade.parsed
    /\ receiptLines[cascade.doc] = <<>>
    /\ poLines = last.before.poLines
    /\ \E e \in 1..Len(exceptionTasks[cascade.doc]) :
         exceptionTasks[cascade.doc][e] = ExceptionRow("OCR", "OCR extraction failed")
    /\ SelectSeq(exceptionTasks[cascade.doc], NotOcr) = <<>>
    /\ matchResults[cascade.doc].status = "error"

\* C16: a document whose extracted text is 30 characters long has, after one
\* pass, no ReceiptLine, exactly one OCR-class exception and status "error"
C16_ShortTextScenario ==
  (Extracted /\ cascade.text_len = 30) =>
    /\ receiptLines[cascade.doc] = <<>>
    /\ OcrCount(exceptionTasks[cascade.doc]) = 1
    /\ matchResults[cascade.doc].status = "error"

\* the place of a strategy in the fixed order: embedded text, remote OCR
\* service, local OCR engines, LLM
Rank(strategy) ==
  CASE strategy \in {"pymupdf", "pypdf2", "pdfplumber"} -> 1
    [] strategy = "ocr_space" -> 2
    [] strategy = "local" -> 3
    [] OTHER -> 4

\* the text a strategy returns is sufficient
Sufficient(len) == len > MinStrategyLen

\* C17: a strategy is invoked only when every strategy of an earlier place
\* that was invoked returned insufficient text; after sufficient embedded
\* text no remote OCR, local OCR or LLM call is made
C17_ShortCircuit ==
  \A i, j \in 1..Len(cascade.calls) :
    (i < j /\ Rank(cascade.calls[i].strategy) < Rank(cascade.calls[j].strategy))
      => ~Sufficient(cascade.calls[i].len)

\* the QR codes in the payload stored on the document
StoredQrCodes ==
  IF HasKey(inbound[cascade.doc].parsed_payload, "qr_codes") THEN cascade.qr_codes ELSE <<>>

\* C18: when the pages render and the scanner is installed, the QR scan has
\* run and the payload stored on the document holds the codes of the pages,
\* whichever strategy supplied the data
C18_BarcodeSideChannel ==
  (Extracted /\ cascade.ext \in {"pdf", "image"} /\ cascade.env.renders
   /\ cascade.env.qr_enabled) =>
    /\ cascade.scanned
    /\ StoredQrCodes = cascade.env.page_codes

\* the keys of the payload's contract, each under the names the three dicts
\* use for it
ContractKeys ==
  {{"document_number", "numero_documento"}, {"po_number"}, {"supplier_name", "fornecedor"},
   {"delivery_date", "data_documento"}, {"produtos", "lines"}, {"totals", "total"},
   {"baixa_qualidade_texto", "error"}}

\* C19: the payload stored by a pass has a key for document number, order
\* number, supplier name, date, product list, totals and diagnostic flags,
\* whichever path produced it
C19_PayloadKeys ==
  Extracted =>
    \A K \in ContractKeys : K \cap PayloadKeys(inbound[cascade.doc].parsed_payload.kind) # {}

-----------------------------------------------------------------------------
(* normalize_number *)

(***************************************************************************)
(* Tokens are strings over the digits, comma, dot, minus and space.  The   *)
(* float normalize_number returns is held in thousandths, which is exact   *)
(* for the tokens explored: none has more than three fractional digits.    *)
(***************************************************************************)

Char(s, i) == SubSeq(s, i, i)

DigitChars == "0123456789"

IsDigit(c) == \E d \in 1..10 : Char(DigitChars, d) = c

DigitValue(c) == (CHOOSE d \in 1..10 : Char(DigitChars, d) = c) - 1

\* str.strip() of spaces
RECURSIVE Strip(_)
Strip(s) ==
  IF s = "" THEN s
  ELSE IF Char(s, 1) = " " THEN Strip(SubSeq(s, 2, Len(s)))
  ELSE IF Char(s, Len(s)) = " " THEN Strip(SubSeq(s, 1, Len(s) - 1))
  ELSE s

\* str.replace(c, '')
RECURSIVE Remove(_, _)
Remove(s, c) ==
  IF s = "" THEN s
  ELSE (IF Char(s, 1) = c THEN "" ELSE Char(s, 1)) \o Remove(SubSeq(s, 2, Len(s)), c)

\* the value of a run of digits
RECURSIVE DigitsValue(_)
DigitsValue(s) ==
  IF s = "" THEN 0
  ELSE 10 * DigitsValue(SubSeq(s, 1, Len(s) - 1)) + DigitValue(Char(s, Len(s)))

\* float(s) accepts: an optional sign, digits with at most one dot, at least
\* one digit
IsFloat(s) ==
  LET body == IF s # "" /\ Char(s, 1) \in {"-", "+"} THEN SubSeq(s, 2, Len(s)) ELSE s
  IN /\ \A i \in 1..Len(body) : IsDigit(Char(body, i)) \/ Char(body, i) = "."
     /\ Cardinality({i \in 1..Len(body) : Char(body, i) = "."}) <= 1
     /\ \E i \in 1..Len(body) : IsDigit(Char(body, i))

\* float(s) in thousandths; the except ValueError branches return 0.0
Float(s) ==
  IF ~IsFloat(s) THEN 0
  ELSE LET negative == Char(s, 1) = "-"
           body == IF Char(s, 1) \in {"-", "+"} THEN SubSeq(s, 2, Len(s)) ELSE s
           dots == {i \in 1..Len(body) : Char(body, i) = "."}
           dot == IF dots = {} THEN Len(body) + 1 ELSE CHOOSE i \in dots : TRUE
           whole == DigitsValue(SubSeq(body, 1, dot - 1))
           fraction == SubSeq(SubSeq(body, dot + 1, Len(body)) \o "000", 1, 3)
           magnitude == 1000 * whole + DigitsValue(fraction)
       IN IF negative THEN 0 - magnitude ELSE magnitude

\* mutant of normalize_number: the comma is always the decimal point
normalize_numberCommaDecimal(value_str) ==
  LET v == Strip(value_str)
      commas == {i \in 1..Len(v) : Char(v, i) = ","}
  IN IF value_str = "" THEN 0
     ELSE IF commas = {} THEN Float(Remove(v, " "))
     ELSE IF Cardinality(commas) # 1 THEN Float(Remove(Remove(v, ","), " "))
     ELSE LET k == CHOOSE i \in commas : TRUE
          IN Float(Remove(SubSeq(v, 1, k - 1), " ") \o "."
                   \o Remove(SubSeq(v, k + 1, Len(v)), " "))

\* lines 48-102
normalize_number(value_str) ==
  LET v == Strip(value_str)
      commas == {i \in 1..Len(v) : Char(v, i) = ","}
  IN IF value_str = "" THEN 0
     ELSE IF commas = {} THEN Float(Remove(v, " "))
     ELSE IF Cardinality(commas) # 1 THEN Float(Remove(Remove(v, ","), " "))
     ELSE LET k == CHOOSE i \in commas : TRUE
              integer_part == Remove(SubSeq(v, 1, k - 1), " ")
              decimal_part == Remove(SubSeq(v, k + 1, Len(v)), " ")
          IN IF Len(decimal_part) = 3 THEN Float(integer_part \o decimal_part)
             ELSE Float(integer_part \o "." \o decimal_part)

\* str(n) of a natural number
RECURSIVE NatStr(_)
NatStr(n) ==
  IF n < 10 THEN Char(DigitChars, n + 1)
  ELSE NatStr(n \div 10) \o Char(DigitChars, (n % 10) + 1)

\* str(n)
IntStr(n) == IF n < 0 THEN "-" \o NatStr(0 - n) ELSE NatStr(n)

\* f"{n:0{width}d}" of a natural number
RECURSIVE Padded(_, _)
Padded(n, width) ==
  IF width = 0 THEN ""
  ELSE Padded(n \div 10, width - 1) \o Char(DigitChars, (n % 10) + 1)

\* f"{n//1000},{n%1000:03d}"; // and % round towards minus infinity
ThousandsToken(n) == IntStr(n \div 1000) \o "," \o Padded(n % 1000, 3)

\* a value of h hundredths written with a decimal comma and `digits`
\* fractional digits, 2 or (for a multiple of a tenth) 1
DecimalToken(h, digits) ==
  LET magnitude == IF h < 0 THEN 0 - h ELSE h
      fraction == IF digits = 2 THEN Padded(magnitude % 100, 2)
                  ELSE Padded((magnitude % 100) \div 10, 1)
  IN (IF h < 0 THEN "-" ELSE "") \o NatStr(magnitude \div 100) \o "," \o fraction

\* the tokens of the docstring, and tokens outside the two formats
Literals ==
  {"1,880", "0,150", "2,000", "125,000", "1,88", "2,5", "34,00", "", "12", " 1,5 ",
   "1 250,5", "1.5", "1.234,56", "1,234.56", "1,2,3", "12,", ",5", "abc", "-"}

Inputs ==
  {[kind |-> "thousands", n |-> n, token |-> ThousandsToken(n)] :
     n \in (0 - MaxNumber)..MaxNumber}
    \cup {[kind |-> "decimal", n |-> h, token |-> DecimalToken(h, 2)] :
            h \in (0 - MaxNumber)..MaxNumber}
    \cup {[kind |-> "decimal", n |-> 10 * t, token |-> DecimalToken(10 * t, 1)] :
            t \in (0 - MaxNumber)..MaxNumber}
    \cup {[kind |-> "literal", n |-> 0, token |-> t] : t \in Literals}

\* a call of normalize_number
Normalize ==
  /\ norm.pc = "called"
  /\ norm' = [norm EXCEPT !.pc = "returned", !.result = normalize_number(norm.input.token)]
  /\ UNCHANGED <<purchaseOrders, poLines, codeMappings, inbound, receiptLines,
                 exceptionTasks, matchResults, last, passes, sess, lock, cascade,
                 parse, gemini>>

InitNumber ==
  /\ purchaseOrders = <<>>
  /\ poLines = <<>>
  /\ codeMappings = <<>>
  /\ inbound = [d \in Docs |-> [po |-> None, parsed_payload |-> EmptyPayload]]
  /\ receiptLines = [d \in Docs |-> <<>>]
  /\ exceptionTasks = [d \in Docs |-> <<>>]
  /\ matchResults = [d \in Docs |-> NoResult]
  /\ last = NoPass
  /\ passes = 0
  /\ sess = None
  /\ lock = None
  /\ cascade = None
  /\ parse = None
  /\ gemini = None
  /\ \E input \in Inputs : norm = [pc |-> "called", input |-> input, result |-> 0]

NextNumber == Normalize

SpecNumber == InitNumber /\ [][NextNumber]_vars

Returned(kind) == norm.pc = "returned" /\ norm.input.kind = kind

\* the float of a literal, in thousandths
Expected(token) ==
  CASE token = "1,880" -> 1880000
    [] token = "125,000" -> 125000000
    [] token = "34,00" -> 34000
    [] token = "2,5" -> 2500

\* C20 as stated: with exactly 3 digits after the only comma the comma is a
\* thousands separator, so the token of n // 1000, a comma and n % 1000 on 3
\* digits normalizes to n for every integer n; with 1 or 2 digits it is the
\* decimal point, so a value of at most 2 fractional digits written with a
\* decimal comma normalizes to itself
C20_DigitCountRuleAnyInteger ==
  /\ Returned("thousands") => norm.result = 1000 * norm.input.n
  /\ Returned("decimal") => norm.result = 10 * norm.input.n
  /\ (Returned("literal") /\ norm.input.token \in {"1,880", "125,000", "34,00", "2,5"})
       => norm.result = Expected(norm.input.token)

\* C20, amended: the same with the thousands round trip for every integer
\* n >= 0
C20_DigitCountRule ==
  /\ (Returned("thousands") /\ norm.input.n >= 0) => norm.result = 1000 * norm.input.n
  /\ Returned("decimal") => norm.result = 10 * norm.input.n
  /\ (Returned("literal") /\ norm.input.token \in {"1,880", "125,000", "34,00", "2,5"})
       => norm.result = Expected(norm.input.token)

\* a number above a thousand came back from its thousands token
C20_Witness ==
  /\ Returned("thousands")
  /\ norm.input.n > 1000
  /\ norm.input.n % 1000 # 0
  /\ norm.result = 1000 * norm.input.n

\* C21: a token with exactly one comma that also holds a dot normalizes with
\* the later separator as the decimal point and the earlier one removed:
\* "1.234,56" and "1,234.56" both give 1234.56
C21_LaterSeparatorIsDecimal ==
  (Returned("literal") /\ norm.input.token \in {"1.234,56", "1,234.56"})
    => norm.result = 1234560

-----------------------------------------------------------------------------
(* detect_document_type and the parser dispatch of parse_portuguese_document *)

UpperChars == "ABCDEFGHIJKLMNOPQRSTUVWXYZ"

LowerChars == "abcdefghijklmnopqrstuvwxyz"

\* str.lower() on the letters the texts hold in upper case
RECURSIVE Lower(_)
Lower(s) ==
  IF s = "" THEN s
  ELSE LET c == Char(s, 1)
           at == {i \in 1..26 : Char(UpperChars, i) = c}
       IN (IF at = {} THEN c ELSE Char(LowerChars, CHOOSE i \in at : TRUE))
            \o Lower(SubSeq(s, 2, Len(s)))

\* lines 1254-1281
detect_document_type(text) ==
  LET text_lower == Lower(text)
      has(kw) == Contains(kw, text_lower)
  IN IF \/ has("pedido") /\ (has("españa") \/ has("spain"))
        \/ has("pedido") /\ \E kw \in {"artículo", "articulo", "descripción", "descripcion",
                                        "unidades", "cantidad"} : has(kw)
       THEN "PEDIDO_ESPANHOL"
     ELSE IF has("bon de commande") \/ (has("commande") /\ has("désignation"))
       THEN "BON_COMMANDE"
     ELSE IF has("ordem compra") \/ has("ordem de compra") THEN "ORDEM_COMPRA"
     ELSE IF has("elastron") /\ has("fatura") THEN "FATURA_ELASTRON"
     ELSE IF has("colmol") /\ (has("guia") \/ has("comunicação de saída")) THEN "GUIA_COLMOL"
     ELSE IF has("fatura") \/ has("ft") THEN "FATURA_GENERICA"
     ELSE IF has("guia de remessa") \/ has("guia remessa") THEN "GUIA_GENERICA"
     ELSE IF has("recibo") \/ has("receipt") THEN "RECIBO"
     ELSE "DOCUMENTO_GENERICO"

\* phrases of the documents, in the order they stand in a text
Phrases ==
  <<"PEDIDO", "Cantidad", "Bon de Commande", "Ordem de Compra", "ELASTRON", "Fatura",
    "COLMOL", "Guia", "Guia de Remessa", "Comunicação de Saída", "Recibo">>

RECURSIVE JoinPhrases(_, _)
JoinPhrases(chosen, i) ==
  IF i > Len(Phrases) THEN ""
  ELSE (IF i \in chosen THEN Phrases[i] \o "\n" ELSE "") \o JoinPhrases(chosen, i + 1)

Texts == {JoinPhrases(chosen, 1) : chosen \in SUBSET (1..Len(Phrases))}

\* the document types with a parser of their own and that parser
SpecializedParsers ==
  [PEDIDO_ESPANHOL |-> "parse_pedido_espanhol", BON_COMMANDE |-> "parse_bon_commande",
   ORDEM_COMPRA |-> "parse_ordem_compra", FATURA_ELASTRON |-> "parse_fatura_elastron",
   GUIA_COLMOL |-> "parse_guia_colmol"]

\* what a parser can find: nothing or a product line
Yields == {0, 1}

NoProducts == [by |-> "", n |-> 0]

ParseUnchanged ==
  UNCHANGED <<purchaseOrders, poLines, codeMappings, inbound, receiptLines,
              exceptionTasks, matchResults, last, passes, sess, lock, cascade, norm, gemini>>

Invoke(p, parser, n) == [p EXCEPT !.calls = Append(@, [parser |-> parser, n |-> n])]

\* result["produtos"] = produtos under `if produtos:`
Keep(p, parser, n) == IF n > 0 THEN [p EXCEPT !.produtos = [by |-> parser, n |-> n]] ELSE p

\* line 2513
DetectDocumentType ==
  /\ parse.pc = "called"
  /\ parse' = [parse EXCEPT !.doc_type = detect_document_type(parse.text), !.pc = "dispatch"]
  /\ ParseUnchanged

\* lines 2565-2630: the branch of the document type runs its parser
ParseSpecialized(n) ==
  /\ parse.pc = "dispatch"
  /\ parse.doc_type \in DOMAIN SpecializedParsers
  /\ LET parser == SpecializedParsers[parse.doc_type]
         retry == n = 0 /\ parse.doc_type \in {"FATURA_ELASTRON", "GUIA_COLMOL"}
     IN parse' = [Keep(Invoke(parse, parser, n), parser, n) EXCEPT
                    !.pc = IF retry THEN "guia_generica" ELSE "fallback"]
  /\ ParseUnchanged

\* line 2631: no parser of its own
DispatchGeneric ==
  /\ parse.pc = "dispatch"
  /\ parse.doc_type \notin DOMAIN SpecializedParsers
  /\ parse' = [parse EXCEPT
                 !.pc = IF Contains("GUIA", parse.doc_type) THEN "guia_generica" ELSE "heuristics"]
  /\ ParseUnchanged

\* lines 2613-2616, 2625-2628, 2632-2636
ParseGuiaGenerica(n) ==
  /\ parse.pc = "guia_generica"
  /\ parse' = [Keep(Invoke(parse, "parse_guia_generica", n), "parse_guia_generica", n) EXCEPT
                 !.pc = IF parse.doc_type \in DOMAIN SpecializedParsers \/ n > 0
                        THEN "fallback" ELSE "heuristics"]
  /\ ParseUnchanged

\* lines 2638-2641
ExtractGuiaRemessaProducts(n) ==
  /\ parse.pc = "heuristics"
  /\ parse' = [Keep(Invoke(parse, "extract_guia_remessa_products", n),
                    "extract_guia_remessa_products", n) EXCEPT
                 !.pc = IF n > 0 THEN "fallback" ELSE "product_lines"]
  /\ ParseUnchanged

\* lines 2642-2655: the lines found go to result["lines"]
ExtractProductLines(n) ==
  /\ parse.pc = "product_lines"
  /\ parse' = [Invoke(parse, "extract_product_lines", n) EXCEPT !.lines = n, !.pc = "fallback"]
  /\ ParseUnchanged

\* lines 2657-2664
ParseGenericDocument(n) ==
  /\ parse.pc = "fallback"
  /\ parse.produtos.n = 0 /\ parse.file_path
  /\ parse' = [Keep(Invoke(parse, "parse_generic_document", n), "parse_generic_document", n)
                 EXCEPT !.pc = "totals"]
  /\ ParseUnchanged

\* line 2658 false
SkipGenericDocument ==
  /\ parse.pc = "fallback"
  /\ ~(parse.produtos.n = 0 /\ parse.file_path)
  /\ parse' = [parse EXCEPT !.pc = "totals"]
  /\ ParseUnchanged

\* lines 2679-2699
ReturnParsed ==
  /\ parse.pc = "totals"
  /\ parse' = [parse EXCEPT
                 !.total_lines = IF parse.produtos.n > 0 THEN parse.produtos.n ELSE parse.lines,
                 !.pc = "returned"]
  /\ ParseUnchanged

InitParse ==
  /\ purchaseOrders = <<>>
  /\ poLines = <<>>
  /\ codeMappings = <<>>
  /\ inbound = [d \in Docs |-> [po |-> None, parsed_payload |-> EmptyPayload]]
  /\ receiptLines = [d \in Docs |-> <<>>]
  /\ exceptionTasks = [d \in Docs |-> <<>>]
  /\ matchResults = [d \in Docs |-> NoResult]
  /\ last = NoPass
  /\ passes = 0
  /\ sess = None
  /\ lock = None
  /\ cascade = None
  /\ norm = None
  /\ gemini = None
  /\ \E text \in Texts : \E file_path \in BOOLEAN :
       parse = [pc |-> "called", text |-> text, file_path |-> file_path, doc_type |-> "",
                calls |-> <<>>, produtos |-> NoProducts, lines |-> 0, total_lines |-> 0]

NextParse ==
  \/ DetectDocumentType
  \/ \E n \in Yields : ParseSpecialized(n)
  \/ DispatchGeneric
  \/ \E n \in Yields : ParseGuiaGenerica(n)
  \/ \E n \in Yields : ExtractGuiaRemessaProducts(n)
  \/ \E n \in Yields : ExtractProductLines(n)
  \/ \E n \in Yields : ParseGenericDocument(n)
  \/ SkipGenericDocument
  \/ ReturnParsed

SpecParse == InitParse /\ [][NextParse]_vars

\* the vendor categories whose predicate, as the claim words it, the text
\* satisfies
VendorCategories(text) ==
  LET text_lower == Lower(text)
  IN (IF Contains("elastron", text_lower) /\ Contains("fatura", text_lower)
        THEN {"FATURA_ELASTRON"} ELSE {})
       \cup (IF Contains("colmol", text_lower) /\ Contains("guia", text_lower)
               THEN {"GUIA_COLMOL"} ELSE {})

\* C22: a text that satisfies a vendor-specific predicate (holds "elastron"
\* and "fatura", or "colmol" and "guia") is classified as that vendor's
\* category, never as a generic or language-only one
C22_VendorBeforeGeneric ==
  (parse.pc # "called" /\ VendorCategories(parse.text) # {})
    => parse.doc_type \in VendorCategories(parse.text)

Invoked(parser) == \E i \in 1..Len(parse.calls) : parse.calls[i].parser = parser

Yielded(parser) ==
  \E i \in 1..Len(parse.calls) : parse.calls[i].parser = parser /\ parse.calls[i].n > 0

DispatchParsers ==
  {SpecializedParsers[t] : t \in DOMAIN SpecializedParsers}
    \cup {"parse_guia_generica", "extract_guia_remessa_products", "extract_product_lines"}

\* C23: parse_generic_document is invoked only when neither the specialized
\* parser of the document type nor a heuristic parser (parse_guia_generica,
\* extract_guia_remessa_products, extract_product_lines) yielded a product
\* line; when one of them did, the fallback's output does not replace theirs
C23_FallbackOnlyWhenNothingYielded ==
  (\E parser \in DispatchParsers : Yielded(parser))
    => /\ ~Invoked("parse_generic_document")
       /\ parse.produtos.by # "parse_generic_document"

-----------------------------------------------------------------------------
(* persist_document (llm_extraction/gemini_persist.py) *)

\* str.replace(c, d)
RECURSIVE Replace(_, _, _)
Replace(s, c, d) ==
  IF s = "" THEN s
  ELSE (IF Char(s, 1) = c THEN d ELSE Char(s, 1)) \o Replace(SubSeq(s, 2, Len(s)), c, d)

\* lines 35-59, the Decimal in thousandths
_norm_qty(qty) ==
  LET s == Remove(Strip(qty), " ")
      dots == Cardinality({i \in 1..Len(s) : Char(s, i) = "."})
      t == IF Contains(",", s) /\ dots > 0 THEN Replace(Remove(s, "."), ",", ".")
           ELSE IF Contains(",", s) THEN Replace(s, ",", ".")
           ELSE IF dots > 1 THEN Remove(s, ".")
           ELSE s
  IN IF qty = "" THEN 0 ELSE Float(t)

\* a Decimal of thousandths in a column of decimal_places=2, in hundredths
\* (models.py 88; the decimal context rounds half to even)
Cents(t) ==
  LET q == t \div 10
      r == t % 10
  IN IF r < 5 \/ (r = 5 /\ q % 2 = 0) THEN q ELSE q + 1

\* lines 61-64 on the names of the objects
_short_code_from_name(name) ==
  CASE name = None -> "FORNECEDOR"
    [] name = "Acme" -> "ACME"

LineDTO(supplier_code, qty_received) ==
  [supplier_code |-> supplier_code, description |-> "Espuma", unit |-> None,
   qty_received |-> qty_received]

LineDTOs == {LineDTO(code, qty) : code \in {"A1", "B2 "}, qty \in {"5", "1,71", "1,711"}}

\* the extracted objects; doc_type and number are held fixed
Objects ==
  [doc_type : {"GR "}, number : {"G1"}, supplier_code : {None, "S1"},
   supplier_name : {None, "Acme"}, po_number : {None, "P1"},
   lines : {<<>>} \cup {<<a>> : a \in LineDTOs} \cup {<<a, b>> : a, b \in LineDTOs}]

\* the rows a ReceiptLine lookup on qty_received finds: a backend that
\* adapts the looked-up Decimal to the column compares it rounded, one that
\* hands it on as it is compares the three decimals with the stored two
SameQty(adapts, row_cents, qty) == IF adapts THEN row_cents = Cents(qty) ELSE 10 * row_cents = qty

\* lines 146-172; raised for MultipleObjectsReturned
RECURSIVE PersistLines(_, _, _, _, _, _)
PersistLines(rows, maps, adapts, doc, supplier, todo) ==
  IF todo = <<>> THEN [raised |-> FALSE, rows |-> rows]
  ELSE LET ln == Head(todo)
           code == Strip(ln.supplier_code)
           unit == Strip(IF ln.unit = None THEN "UN" ELSE ln.unit)
           qty == _norm_qty(ln.qty_received)
           found == {i \in 1..Len(rows) :
                       /\ rows[i].inbound = doc
                       /\ rows[i].supplier_code = code
                       /\ rows[i].description = Strip(ln.description)
                       /\ rows[i].unit = unit
                       /\ SameQty(adapts, rows[i].qty_received, qty)}
           m == MappingIdx(maps, supplier, code)
           row == [inbound |-> doc, supplier_code |-> code, article_code |-> code,
                   description |-> Strip(ln.description), unit |-> unit,
                   qty_received |-> Cents(qty),
                   maybe_internal_sku |-> IF m = 0 THEN "" ELSE maps[m].internal_sku]
       IN IF Cardinality(found) > 1 THEN [raised |-> TRUE, rows |-> rows]
          ELSE PersistLines(IF found = {} THEN Append(rows, row) ELSE rows,
                            maps, adapts, doc, supplier, Tail(todo))

\* lines 95-106: the supplier of the object, created when none is found
ResolveSupplier(suppliers, obj) ==
  LET by_code == {i \in 1..Len(suppliers) : suppliers[i].code = obj.supplier_code}
      by_name == {i \in 1..Len(suppliers) :
                    obj.supplier_name # None
                    /\ Lower(suppliers[i].name) = Lower(obj.supplier_name)}
      code == IF obj.supplier_code # None THEN obj.supplier_code
              ELSE _short_code_from_name(obj.supplier_name)
      name == IF obj.supplier_name # None THEN obj.supplier_name ELSE code
  IN IF obj.supplier_code # None /\ by_code # {}
       THEN [supplier |-> suppliers[Min(by_code)].code, suppliers |-> suppliers]
     ELSE IF by_name # {}
       THEN [supplier |-> suppliers[Min(by_name)].code, suppliers |-> suppliers]
     ELSE IF \E i \in 1..Len(suppliers) : suppliers[i].code = code
       THEN [supplier |-> code, suppliers |-> suppliers]
     ELSE [supplier |-> code, suppliers |-> Append(suppliers, [code |-> code, name |-> name])]

\* lines 108-116: the order of the object, None when it is another supplier's
ResolveOrder(pos, po_number, supplier) ==
  IF po_number = None THEN [po |-> None, pos |-> pos]
  ELSE IF POIdx(pos, po_number) = 0
    THEN [po |-> po_number, pos |-> Append(pos, PORow(po_number, supplier))]
  ELSE [po |-> IF pos[POIdx(pos, po_number)].supplier = supplier THEN po_number ELSE None,
        pos |-> pos]

\* lines 118-144: InboundDocument.objects.get_or_create and the merge
ResolveDocument(documents, supplier, obj, po) ==
  LET found == {i \in 1..Len(documents) :
                  /\ documents[i].supplier = supplier
                  /\ documents[i].doc_type = Strip(obj.doc_type)
                  /\ documents[i].number = Strip(obj.number)}
  IN IF found = {}
     THEN [raised |-> FALSE, doc |-> Len(documents) + 1,
           documents |-> Append(documents,
                                [supplier |-> supplier, doc_type |-> Strip(obj.doc_type),
                                 number |-> Strip(obj.number), po |-> po,
                                 lines_extracted |-> Len(obj.lines)])]
     ELSE [raised |-> Cardinality(found) > 1, doc |-> Min(found),
           documents |-> [documents EXCEPT
                            ![Min(found)].lines_extracted = Len(obj.lines),
                            ![Min(found)].po = IF po # None /\ @ = None THEN po ELSE @]]

\* lines 174-195: MatchResult.objects.update_or_create
UpdateMatchResult(results, rows, doc) ==
  LET mine == {i \in 1..Len(rows) : rows[i].inbound = doc}
      issues == Cardinality({i \in mine : rows[i].maybe_internal_sku = ""})
      result == [inbound |-> doc,
                 status |-> IF mine = {} THEN "pending"
                            ELSE IF issues = 0 THEN "matched" ELSE "exceptions",
                 total_lines |-> Cardinality(mine), lines_with_issues |-> issues]
      old == {i \in 1..Len(results) : results[i].inbound = doc}
  IN IF old = {} THEN Append(results, result) ELSE [results EXCEPT ![Min(old)] = result]

\* lines 74-197: the tables after the call; raised when the call raised and
\* the transaction rolled back
persist_document(g, pos, maps, obj) ==
  LET s == ResolveSupplier(g.suppliers, obj)
      o == ResolveOrder(pos, obj.po_number, s.supplier)
      d == ResolveDocument(g.documents, s.supplier, obj, o.po)
      saved == PersistLines(g.lines, maps, g.adapts, d.doc, s.supplier, obj.lines)
  IN IF d.raised \/ saved.raised THEN [raised |-> TRUE, g |-> g, pos |-> pos, doc |-> 0]
     ELSE [raised |-> FALSE,
           g |-> [g EXCEPT !.suppliers = s.suppliers, !.documents = d.documents,
                           !.lines = saved.rows,
                           !.results = UpdateMatchResult(@, saved.rows, d.doc)],
           pos |-> o.pos, doc |-> d.doc]

\* a call of persist_document with the object
PersistDocument ==
  /\ gemini.calls < MaxCalls
  /\ LET r == persist_document(gemini, purchaseOrders, codeMappings, gemini.obj)
     IN IF r.raised
        THEN /\ gemini' = [gemini EXCEPT !.calls = @ + 1, !.raised = @ + 1]
             /\ UNCHANGED purchaseOrders
        ELSE /\ gemini' = [r.g EXCEPT
                             !.calls = @ + 1,
                             !.doc = r.doc,
                             !.first = IF gemini.doc = 0
                                       THEN SelectSeq(r.g.lines, LAMBDA row : row.inbound = r.doc)
                                       ELSE @]
             /\ purchaseOrders' = r.pos
  /\ UNCHANGED <<poLines, codeMappings, inbound, receiptLines, exceptionTasks, matchResults,
                 last, passes, sess, lock, cascade, norm, parse>>

InitPersist ==
  /\ purchaseOrders \in {<<>>, <<PORow("P1", "AUTO")>>}
  /\ poLines = <<>>
  /\ codeMappings \in {<<>>, <<CodeMappingRow("S1", "A1", "A1234", ManualConfidence)>>}
  /\ inbound = [d \in Docs |-> [po |-> None, parsed_payload |-> EmptyPayload]]
  /\ receiptLines = [d \in Docs |-> <<>>]
  /\ exceptionTasks = [d \in Docs |-> <<>>]
  /\ matchResults = [d \in Docs |-> NoResult]
  /\ last = NoPass
  /\ passes = 0
  /\ sess = None
  /\ lock = None
  /\ cascade = None
  /\ norm = None
  /\ parse = None
  /\ \E obj \in Objects : \E adapts \in BOOLEAN :
       \E suppliers \in {<<>>, <<[code |-> "S1", name |-> "ACME"]>>} :
         gemini = [obj |-> obj, adapts |-> adapts, suppliers |-> suppliers, documents |-> <<>>,
                   lines |-> <<>>, results |-> <<>>, calls |-> 0, raised |-> 0, doc |-> 0,
                   first |-> <<>>]

NextPersist == PersistDocument

SpecPersist == InitPersist /\ [][NextPersist]_vars

\* the ReceiptLines of the object's document
LinesOfDocument == SelectSeq(gemini.lines, LAMBDA row : row.inbound = gemini.doc)

\* C24: persist_document is idempotent on (supplier, doc_type, number):
\* after any number of calls with the same object there is exactly one
\* InboundDocument of its key and one MatchResult for it, the ReceiptLines
\* are those left by the first call, and every input line has its row
C24_PersistIdempotent ==
  gemini.doc # 0 =>
    LET key == gemini.documents[gemini.doc]
    IN /\ Cardinality({i \in 1..Len(gemini.documents) :
                         /\ gemini.documents[i].supplier = key.supplier
                         /\ gemini.documents[i].doc_type = key.doc_type
                         /\ gemini.documents[i].number = key.number}) = 1
       /\ Cardinality({i \in 1..Len(gemini.results) :
                         gemini.results[i].inbound = gemini.doc}) = 1
       /\ LinesOfDocument = gemini.first
       /\ \A k \in 1..Len(gemini.obj.lines) :
            \E i \in 1..Len(LinesOfDocument) :
              /\ LinesOfDocument[i].supplier_code = Strip(gemini.obj.lines[k].supplier_code)
              /\ LinesOfDocument[i].qty_received = Cents(_norm_qty(gemini.obj.lines[k].qty_received))

====
